---- MODULE Spec2Model ----
(***************************************************************************)
(* A model of the System container of openff-system                        *)
(* (src/openff/system/components/system.py): the container's box,          *)
(* positions, topology and handlers, name lookup, attribute aliasing and   *)
(* the combination operator System.__add__.                                *)
(*                                                                         *)
(* Python values are modelled as follows.                                  *)
(*   None / numpy array : a record [kind, dtype, shape, data] whose data   *)
(*                        is the array flattened in row-major order        *)
(*   dict               : a sequence of [k, v] records in insertion order  *)
(*   TopologyKey        : a record [atom_indices, mult]                    *)
(*   a raised exception : a record [type, msg, names]                      *)
(* Atom indices are 0-based as in Python; sequences are 1-based.           *)
(***************************************************************************)
EXTENDS Integers, Sequences, FiniteSets, TLC

VARIABLES
    inner,   \* the InnerSystem objects: inner["a"] is a._inner_data, ...
    ref,     \* ref[s] : which InnerSystem the System object s holds ("" : s does not exist)
    attrs,   \* attrs[s] : the instance attributes of System object s set through __setattr__
    pre,     \* the InnerSystem objects as they were before the last call when that call
             \* was a combination (otherwise as they are)
    last,    \* the last call: its name, arguments, return value or exception
    added,   \* added[n] : the handler last passed to a.add_handler under n, if not removed since
    effects, \* what the last call did outside the containers, in order: the warnings it
             \* issued and the writers and toolkit functions it invoked
    environ, \* os.environ: the environment variables that are set, with their values
    electrostatics \* an ElectrostaticsCollection of openff.interchange: its key map,
             \* its potentials and its private charge table

vars == <<inner, ref, attrs, pre, last, added, effects, environ, electrostatics>>

(***************************************************************************)
(* Bounds of the model.                                                    *)
(***************************************************************************)
\* the largest atom count a combination may produce
MaxAtoms == 3
\* box edge lengths are drawn from 1..MaxBox
MaxBox == 2
\* virtual-site distances are drawn from -MaxDistance..MaxDistance
MaxDistance == 2
\* separations of the orientation atoms of a bond-charge site are drawn from 1..MaxSeparation
MaxSeparation == 3

(***************************************************************************)
(* Python dicts: insertion-ordered sequences of [k, v].                    *)
(***************************************************************************)
EmptyDict == <<>>

DictKeys(d) == [i \in 1..Len(d) |-> d[i].k]

DictHas(d, key) == \E i \in 1..Len(d) : d[i].k = key

DictIndex(d, key) == CHOOSE i \in 1..Len(d) : d[i].k = key

DictGet(d, key) == d[DictIndex(d, key)].v

\* a faulty dict.update that appends even when the key is present
DictUpdateAppending(d, key, val) == Append(d, [k |-> key, v |-> val])

\* dict.update({key: val}): an existing key keeps its place, a new key goes last
DictUpdate(d, key, val) ==
    IF DictHas(d, key)
    THEN [d EXCEPT ![DictIndex(d, key)] = [k |-> key, v |-> val]]
    ELSE Append(d, [k |-> key, v |-> val])

\* dict.pop(key) of a key that is present
DictPop(d, key) ==
    LET i == DictIndex(d, key)
    IN  SubSeq(d, 1, i - 1) \o SubSeq(d, i + 1, Len(d))

(***************************************************************************)
(* None and numpy arrays.                                                  *)
(***************************************************************************)
NoneVal == [kind |-> "None", dtype |-> "", shape |-> <<>>, data |-> <<>>]

NdArray(shape, data) == [kind |-> "ndarray", dtype |-> "float", shape |-> shape, data |-> data]

IsNone(v) == v.kind = "None"

\* the element None of an array of dtype object
NoneElem == 0 - 1

Vec3(x, y, z) == NdArray(<<3>>, <<x, y, z>>)

Diag(x, y, z) == NdArray(<<3, 3>>, <<x, 0, 0, 0, y, 0, 0, 0, z>>)

\* np.eye(3)
Eye3 == Diag(1, 1, 1)

\* val * np.eye(3) for val of shape (3,): broadcast along rows, out[i][j] = val[j] * eye[i][j]
TimesEye3(val) ==
    NdArray(<<3, 3>>,
            [n \in 1..9 |-> val.data[((n - 1) % 3) + 1] * Eye3.data[n]])

\* np.atleast_2d, as np.vstack applies it to each operand
AtLeast2d(v) ==
    IF IsNone(v)
    THEN [kind |-> "ndarray", dtype |-> "object", shape |-> <<1, 1>>, data |-> <<NoneElem>>]
    ELSE IF Len(v.shape) = 1
         THEN [v EXCEPT !.shape = <<1, v.shape[1]>>]
         ELSE v

\* np.vstack([x, y]): [ok, val]; not ok is the ValueError of mismatched row widths
VStack(x, y) ==
    LET x2 == AtLeast2d(x)
        y2 == AtLeast2d(y)
    IN  IF x2.shape[2] # y2.shape[2]
        THEN [ok |-> FALSE, val |-> NoneVal]
        ELSE [ok |-> TRUE,
              val |-> [kind |-> "ndarray",
                       dtype |-> IF x2.dtype = "object" \/ y2.dtype = "object"
                                 THEN "object" ELSE "float",
                       shape |-> <<x2.shape[1] + y2.shape[1], x2.shape[2]>>,
                       data |-> x2.data \o y2.data]]

\* np.all(x == y) for boxes: None == None is True, an array == None is all False
NpAllEqual(x, y) ==
    IF IsNone(x) \/ IsNone(y)
    THEN IsNone(x) /\ IsNone(y)
    ELSE x.shape = y.shape /\ x.data = y.data

(***************************************************************************)
(* Exceptions and results of calls.                                        *)
(***************************************************************************)
NoExc == [type |-> "", msg |-> "", names |-> <<>>]

Exc(type, msg) == [type |-> type, msg |-> msg, names |-> <<>>]

\* warnings.warn(msg, category)
Warning(category, msg) == [kind |-> "warning", name |-> category, arg |-> msg]

\* a call of a function of another module on a container
Invoked(name, in) == [kind |-> "call", name |-> name, arg |-> in]

(***************************************************************************)
(* InnerSystem and its box validator.                                      *)
(***************************************************************************)
\* a faulty validate_box that lets a value of any other shape through
validate_box_any_shape(val) ==
    IF IsNone(val) \/ val.shape = <<3, 3>> \/ val.shape # <<3>>
    THEN [exc |-> NoExc, val |-> val]
    ELSE [exc |-> NoExc, val |-> TimesEye3(val)]

\* a faulty validate_box that returns a 3-vector as it is
validate_box_unexpanded(val) ==
    IF IsNone(val) \/ val.shape = <<3, 3>> \/ val.shape = <<3>>
    THEN [exc |-> NoExc, val |-> val]
    ELSE [exc |-> Exc("InvalidBoxError", ""), val |-> NoneVal]

\* InnerSystem.validate_box: [exc, val]
validate_box(val) ==
    IF IsNone(val)
    THEN [exc |-> NoExc, val |-> val]
    ELSE IF val.shape = <<3, 3>>
         THEN [exc |-> NoExc, val |-> val]
         ELSE IF val.shape = <<3>>
              THEN [exc |-> NoExc, val |-> TimesEye3(val)]
              ELSE [exc |-> Exc("InvalidBoxError", ""), val |-> NoneVal]

(***************************************************************************)
(* Topology keys, potentials, handlers, topologies.                        *)
(***************************************************************************)
\* TopologyKey(atom_indices=..., mult=...): mult is <<>> for None, <<m>> for m
TopologyKey(atom_indices, mult) == [atom_indices |-> atom_indices, mult |-> mult]

Potential(parameters) == [parameters |-> parameters]

\* the method a handler of the type has when none is given
DefaultMethod(type) ==
    IF type = "vdW" THEN "cutoff" ELSE IF type = "Electrostatics" THEN "PME" ELSE ""

\* the cutoff of a nonbonded handler when none is given, in angstrom
DefaultCutoff == 9

\* a PotentialHandler: its slot map, its potential store and, for
\* Electrostatics, its charges; its method and cutoff
Handler(type, slot_map, potentials, charges) ==
    [type |-> type, slot_map |-> slot_map, potentials |-> potentials, charges |-> charges,
     method |-> DefaultMethod(type), cutoff |-> DefaultCutoff]

NoHandler == Handler("", EmptyDict, EmptyDict, EmptyDict)

HandlerNames ==
    {"Bonds", "Angles", "ProperTorsions", "ImproperTorsions", "vdW", "Electrostatics"}

Molecules == {"M1", "M2"}

\* the atoms of a molecule, by atom type: M1 is one atom, M2 two bonded atoms
MolAtoms(mol) == IF mol = "M1" THEN <<"t1">> ELSE <<"t1", "t2">>

RECURSIVE AtomTypes(_)
AtomTypes(mols) ==
    IF mols = <<>> THEN <<>> ELSE MolAtoms(Head(mols)) \o AtomTypes(Tail(mols))

\* an OFFBioTop: its molecules and the atom count of its mdtop
NoTopology == [kind |-> "None", molecules |-> <<>>, n_atoms |-> 0]

Topology(mols) == [kind |-> "OFFBioTop", molecules |-> mols, n_atoms |-> Len(AtomTypes(mols))]

(***************************************************************************)
(* The parameterization done by the toolkit for from_smirnoff: which       *)
(* potential each atom and bond gets under a force field.                  *)
(***************************************************************************)
ForceFields == {"FF1", "FF2"}

\* the potential identity (the SMIRKS pattern) an atom type matches
VdwId(t) == IF t = "t1" THEN "n1" ELSE "n2"

\* the parameters a force field stores under a potential identity:
\* the two force fields differ in what they store under n1
FFPotential(ff, id) ==
    IF id = "n1" THEN (IF ff = "FF1" THEN Potential(<<1, 1>>) ELSE Potential(<<3, 1>>))
    ELSE IF id = "n2" THEN Potential(<<2, 1>>)
    ELSE Potential(<<5, 1>>)

TypeCharge(t) == IF t = "t1" THEN 1 ELSE 0 - 1

RECURSIVE VdwSlots(_, _)
VdwSlots(types, i) ==
    IF i > Len(types) THEN EmptyDict
    ELSE <<[k |-> TopologyKey(<<i - 1>>, <<>>), v |-> VdwId(types[i])]>>
         \o VdwSlots(types, i + 1)

RECURSIVE BondSlots(_, _)
BondSlots(mols, offset) ==
    IF mols = <<>> THEN EmptyDict
    ELSE (IF Len(MolAtoms(Head(mols))) = 2
          THEN <<[k |-> TopologyKey(<<offset, offset + 1>>, <<>>), v |-> "b1"]>>
          ELSE EmptyDict)
         \o BondSlots(Tail(mols), offset + Len(MolAtoms(Head(mols))))

RECURSIVE ChargeSlots(_, _)
ChargeSlots(types, i) ==
    IF i > Len(types) THEN EmptyDict
    ELSE <<[k |-> TopologyKey(<<i - 1>>, <<>>), v |-> TypeCharge(types[i])]>>
         \o ChargeSlots(types, i + 1)

\* the potential store of a slot map: every identity it uses, in order of first use
RECURSIVE StoreOf(_, _, _)
StoreOf(ff, slots, i) ==
    IF i > Len(slots) THEN EmptyDict
    ELSE LET rest == StoreOf(ff, slots, i + 1)
             id == slots[i].v
         IN  IF \E j \in 1..(i - 1) : slots[j].v = id
             THEN rest
             ELSE <<[k |-> id, v |-> FFPotential(ff, id)]>> \o rest

FromToolkit(type, ff, mols) ==
    LET slots == IF type = "vdW" THEN VdwSlots(AtomTypes(mols), 1)
                 ELSE IF type = "Bonds" THEN BondSlots(mols, 0)
                 ELSE EmptyDict
    IN  Handler(type, slots, StoreOf(ff, slots, 1),
                IF type = "Electrostatics" THEN ChargeSlots(AtomTypes(mols), 1) ELSE EmptyDict)

(***************************************************************************)
(* System.                                                                 *)
(***************************************************************************)
\* System.InnerSystem()
InnerSystem == [handlers |-> EmptyDict, topology |-> NoTopology, box |-> NoneVal, positions |-> NoneVal]

\* System.from_smirnoff on a supported force field and an OFFBioTop:
\* the handlers are registered in the order of the loop, then the box is set
from_smirnoff(force_field, mols, box) ==
    LET h1 == DictUpdate(EmptyDict, "Bonds", FromToolkit("Bonds", force_field, mols))
        h2 == DictUpdate(h1, "vdW", FromToolkit("vdW", force_field, mols))
        h3 == DictUpdate(h2, "Electrostatics", FromToolkit("Electrostatics", force_field, mols))
    IN  [handlers |-> h3, topology |-> Topology(mols),
         box |-> validate_box(box).val, positions |-> NoneVal]

\* _SUPPORTED_SMIRNOFF_HANDLERS
SUPPORTED_SMIRNOFF_HANDLERS ==
    {"Constraints", "Bonds", "Angles", "ProperTorsions", "ImproperTorsions",
     "vdW", "Electrostatics", "LibraryCharges", "ChargeIncrementModel"}

\* a faulty check that reports the first unsupported handler only
check_first_unsupported_handler(registered) ==
    LET unsupported == SelectSeq(registered,
            LAMBDA handler : handler \notin {"ToolkitAM1BCC"}
                             /\ handler \notin SUPPORTED_SMIRNOFF_HANDLERS)
    IN  IF unsupported # <<>>
        THEN [type |-> "SMIRNOFFHandlersNotImplementedError", msg |-> "",
              names |-> <<Head(unsupported)>>]
        ELSE NoExc

\* System._check_supported_handlers on the names
\* force_field.registered_parameter_handlers: the exception raised, if any
check_supported_handlers(registered) ==
    LET unsupported == SelectSeq(registered,
            LAMBDA handler : handler \notin {"ToolkitAM1BCC"}
                             /\ handler \notin SUPPORTED_SMIRNOFF_HANDLERS)
    IN  IF unsupported # <<>>
        THEN [type |-> "SMIRNOFFHandlersNotImplementedError", msg |-> "",
              names |-> unsupported]
        ELSE NoExc

\* the potential handler types from_smirnoff loops over, by the name of their type
PotentialHandlerTypes ==
    <<"Angles", "Bonds", "ImproperTorsions", "ProperTorsions", "vdW", "Electrostatics">>

\* potential_handler_type.allowed_parameter_handlers(), by name
AllowedParameterHandlers(type) ==
    IF type = "Electrostatics"
    THEN {"Electrostatics", "LibraryCharges", "ToolkitAM1BCC", "ChargeIncrementModel"}
    ELSE {type}

\* the topology argument of from_smirnoff: an object of some type holding
\* molecules and box vectors
TopologyArgument(kind, mols, box_vectors) ==
    [kind |-> kind, molecules |-> mols, box_vectors |-> box_vectors]

\* the loop of from_smirnoff over the potential handler types from the i-th
\* on: acc is [handlers, effects]
RECURSIVE BuildHandlers(_, _, _, _, _)
BuildHandlers(force_field, registered, mols, i, acc) ==
    IF i > Len(PotentialHandlerTypes) THEN acc
    ELSE LET type == PotentialHandlerTypes[i]
             has(name) == \E j \in 1..Len(registered) : registered[j] = name
             found == \E j \in 1..Len(registered) :
                          registered[j] \in AllowedParameterHandlers(type)
             h1 == DictUpdate(acc.handlers, type, FromToolkit(type, force_field, mols))
             h2 == IF type = "Bonds" /\ has("Constraints")
                   THEN DictUpdate(h1, "Constraints",
                                   FromToolkit("Constraints", force_field, mols))
                   ELSE h1
         IN  IF ~found
             THEN BuildHandlers(force_field, registered, mols, i + 1, acc)
             ELSE BuildHandlers(force_field, registered, mols, i + 1,
                      [handlers |-> h2,
                       effects |-> Append(acc.effects, Invoked("_from_toolkit", type))])

\* a faulty from_smirnoff that takes any topology argument as an OFFBioTop
FromSmirnoffAnyTopology(force_field, registered, topology, box) ==
    LET checked == check_supported_handlers(registered)
        built == BuildHandlers(force_field, registered, topology.molecules, 1,
                               [handlers |-> EmptyDict, effects |-> <<>>])
        box_in == IF IsNone(box) /\ ~IsNone(topology.box_vectors)
                  THEN topology.box_vectors ELSE box
    IN  IF checked # NoExc
        THEN [exc |-> checked, in |-> InnerSystem, effects |-> <<>>]
        ELSE IF validate_box(box_in).exc # NoExc
        THEN [exc |-> Exc("ValidationError", "InvalidBoxError"), in |-> InnerSystem,
              effects |-> built.effects]
        ELSE [exc |-> NoExc,
              in |-> [handlers |-> built.handlers, topology |-> Topology(topology.molecules),
                      box |-> validate_box(box_in).val, positions |-> NoneVal],
              effects |-> built.effects]

\* System.from_smirnoff(force_field, topology, box), the force field
\* registering the parameter handlers named in registered: [exc, in, effects],
\* in being the InnerSystem of the System returned
FromSmirnoffOf(force_field, registered, topology, box) ==
    LET checked == check_supported_handlers(registered)
        converted == IF topology.kind = "Topology"
                     THEN <<Invoked("OFFBioTop", topology.molecules)>> ELSE <<>>
        built == BuildHandlers(force_field, registered, topology.molecules, 1,
                               [handlers |-> EmptyDict, effects |-> converted])
        box_in == IF IsNone(box) /\ ~IsNone(topology.box_vectors)
                  THEN topology.box_vectors ELSE box
    IN  IF checked # NoExc
        THEN [exc |-> checked, in |-> InnerSystem, effects |-> <<>>]
        ELSE IF topology.kind \notin {"OFFBioTop", "Topology"}
        THEN [exc |-> Exc("InvalidTopologyError",
                          "Could not process topology argument, expected Topology or OFFBioTop."),
              in |-> InnerSystem, effects |-> <<>>]
        ELSE IF validate_box(box_in).exc # NoExc
        THEN [exc |-> Exc("ValidationError", "InvalidBoxError"), in |-> InnerSystem,
              effects |-> built.effects]
        ELSE [exc |-> NoExc,
              in |-> [handlers |-> built.handlers, topology |-> Topology(topology.molecules),
                      box |-> validate_box(box_in).val, positions |-> NoneVal],
              effects |-> built.effects]

\* System._aliases
aliases ==
    << [k |-> "box_vectors", v |-> "x"],
       [k |-> "coordinates", v |-> "positions"],
       [k |-> "top", v |-> "topology"] >>

\* self._aliases.get(name, name)
AliasGet(name) == IF DictHas(aliases, name) THEN DictGet(aliases, name) ELSE name

\* the properties of System that have a setter
Properties == {"box", "positions", "topology"}

\* the systems: a and b are built by from_smirnoff, c is the result of a + b
Systems == {"a", "b", "c"}

Call(op, sys, name, item_type, value, exc, ret) ==
    [op |-> op, sys |-> sys, name |-> name, item_type |-> item_type,
     value |-> value, exc |-> exc, ret |-> ret]

\* the value of property name of the InnerSystem in
PropertyGet(in, name) ==
    IF name = "box" THEN in.box
    ELSE IF name = "positions" THEN in.positions
    ELSE in.topology

\* s = System.from_smirnoff(force_field, topology, box): s is bound to the
\* System built only when the call returns
FromSmirnoff(s, force_field, registered, topology, box) ==
    LET res == FromSmirnoffOf(force_field, registered, topology, box)
        ok == res.exc = NoExc
    IN  /\ ref[s] # ""
        /\ \A t \in Systems \ {s} : ref[t] # ref[s]
        /\ inner' = IF ok THEN [inner EXCEPT ![ref[s]] = res.in] ELSE inner
        /\ attrs' = IF ok THEN [attrs EXCEPT ![s] = EmptyDict] ELSE attrs
        /\ added' = IF ok
                     THEN [n \in HandlerNames |->
                             IF DictHas(res.in.handlers, n)
                             THEN DictGet(res.in.handlers, n) ELSE NoHandler]
                     ELSE added
        /\ last' = Call("from_smirnoff", s, force_field, "str",
                        [registered |-> registered, topology |-> topology, box |-> box],
                        res.exc, IF ok THEN res.in ELSE NoneVal)
        /\ effects' = res.effects
        /\ UNCHANGED <<ref, environ, electrostatics>>
        /\ pre' = inner'

\* System.__setattr__(name, value): the alias is resolved, then a property's
\* setter assigns the field of _inner_data (box through validate_box), and any
\* other name becomes an instance attribute
SetAttr(s, name, value) ==
    LET resolved == AliasGet(name)
        id == ref[s]
        checked == validate_box(value)
    IN  /\ ref[s] # ""
        /\ IF resolved = "box"
           THEN IF checked.exc # NoExc
                THEN /\ last' = Call("setattr", s, name, "str", value,
                                     Exc("ValidationError", "InvalidBoxError"), NoneVal)
                     /\ UNCHANGED <<inner, attrs>>
                ELSE /\ inner' = [inner EXCEPT ![id].box = checked.val]
                     /\ last' = Call("setattr", s, name, "str", value, NoExc, NoneVal)
                     /\ UNCHANGED attrs
           ELSE IF resolved = "positions"
           THEN /\ inner' = [inner EXCEPT ![id].positions = value]
                /\ last' = Call("setattr", s, name, "str", value, NoExc, NoneVal)
                /\ UNCHANGED attrs
           ELSE IF resolved = "topology"
           THEN /\ inner' = [inner EXCEPT ![id].topology = value]
                /\ last' = Call("setattr", s, name, "str", value, NoExc, NoneVal)
                /\ UNCHANGED attrs
           ELSE /\ attrs' = [attrs EXCEPT ![s] = DictUpdate(attrs[s], resolved, value)]
                /\ last' = Call("setattr", s, name, "str", value, NoExc, NoneVal)
                /\ UNCHANGED inner
        /\ effects' = <<>>
        /\ UNCHANGED <<ref, added, environ, electrostatics>>
        /\ pre' = inner'

\* object.__getattribute__(self, name): a property, an instance attribute, or AttributeError
ObjectGetAttribute(s, name) ==
    IF name \in Properties
    THEN [exc |-> NoExc, ret |-> PropertyGet(inner[ref[s]], name)]
    ELSE IF DictHas(attrs[s], name)
         THEN [exc |-> NoExc, ret |-> DictGet(attrs[s], name)]
         ELSE [exc |-> Exc("AttributeError", name), ret |-> NoneVal]

\* reading s.name: the normal lookup, and System.__getattr__ when that fails: [exc, ret]
GetAttrOf(s, name) ==
    LET direct == ObjectGetAttribute(s, name)
    IN  IF direct.exc = NoExc THEN direct ELSE ObjectGetAttribute(s, AliasGet(name))

GetAttr(s, name) ==
    LET got == GetAttrOf(s, name)
    IN  /\ ref[s] # ""
        /\ last' = Call("getattr", s, name, "str", NoneVal, got.exc, got.ret)
        /\ effects' = <<>>
        /\ UNCHANGED <<inner, ref, attrs, added, environ, electrostatics>>
        /\ pre' = inner'

\* System.add_handler(handler_name, handler)
add_handler(s, handler_name, handler) ==
    /\ ref[s] # ""
    /\ inner' = [inner EXCEPT ![ref[s]].handlers = DictUpdate(@, handler_name, handler)]
    /\ added' = [added EXCEPT ![handler_name] = handler]
    /\ last' = Call("add_handler", s, handler_name, "str", handler, NoExc, NoneVal)
    /\ effects' = <<>>
    /\ UNCHANGED <<ref, attrs, environ, electrostatics>>
    /\ pre' = inner'

\* System.remove_handler(handler_name): dict.pop raises KeyError on a missing name
remove_handler(s, handler_name) ==
    /\ ref[s] # ""
    /\ IF DictHas(inner[ref[s]].handlers, handler_name)
       THEN /\ inner' = [inner EXCEPT ![ref[s]].handlers = DictPop(@, handler_name)]
            /\ added' = [added EXCEPT ![handler_name] = NoHandler]
            /\ last' = Call("remove_handler", s, handler_name, "str", NoneVal, NoExc, NoneVal)
       ELSE /\ last' = Call("remove_handler", s, handler_name, "str", NoneVal,
                            Exc("KeyError", handler_name), NoneVal)
            /\ UNCHANGED <<inner, added>>
    /\ effects' = <<>>
    /\ UNCHANGED <<ref, attrs, environ, electrostatics>>
    /\ pre' = inner'

\* a faulty __getitem__ without the test of the key's type
GetItemOfAnyType(in, item_type, item) ==
    IF item = "positions"
    THEN [exc |-> NoExc, ret |-> in.positions]
    ELSE IF item \in {"box", "box_vectors"}
    THEN [exc |-> NoExc, ret |-> in.box]
    ELSE IF DictHas(in.handlers, item)
    THEN [exc |-> NoExc, ret |-> DictGet(in.handlers, item)]
    ELSE [exc |-> [type |-> "LookupError", msg |-> "Could not find component",
                   names |-> DictKeys(in.handlers)],
          ret |-> NoneVal]

\* System.__getitem__(item) on an InnerSystem: [exc, ret]
GetItemOf(in, item_type, item) ==
    IF item_type # "str"
    THEN [exc |-> Exc("LookupError", "Only str arguments can be currently be used for lookups."),
          ret |-> NoneVal]
    ELSE IF item = "positions"
    THEN [exc |-> NoExc, ret |-> in.positions]
    ELSE IF item \in {"box", "box_vectors"}
    THEN [exc |-> NoExc, ret |-> in.box]
    ELSE IF DictHas(in.handlers, item)
    THEN [exc |-> NoExc, ret |-> DictGet(in.handlers, item)]
    ELSE [exc |-> [type |-> "LookupError", msg |-> "Could not find component",
                   names |-> DictKeys(in.handlers)],
          ret |-> NoneVal]

\* s[item]
GetItem(s, item_type, item) ==
    LET got == GetItemOf(inner[ref[s]], item_type, item)
    IN  /\ ref[s] # ""
        /\ last' = Call("getitem", s, item, item_type, NoneVal, got.exc, got.ret)
        /\ effects' = <<>>
        /\ UNCHANGED <<inner, ref, attrs, added, environ, electrostatics>>
        /\ pre' = inner'

(***************************************************************************)
(* System.__add__.  The new System shares _inner_data with self, so every  *)
(* step below acts on self's InnerSystem, and a step that raises leaves    *)
(* the effects of the steps before it.                                     *)
(***************************************************************************)
\* a faulty offset that moves the first atom index only
OffsetFirstAtom(top_key, atom_offset) ==
    TopologyKey([n \in 1..Len(top_key.atom_indices) |->
                    IF n = 1 THEN top_key.atom_indices[n] + atom_offset
                    ELSE top_key.atom_indices[n]],
                top_key.mult)

\* tuple(idx + atom_offset for idx in top_key.atom_indices), with the same mult
OffsetKey(top_key, atom_offset) ==
    TopologyKey([n \in 1..Len(top_key.atom_indices) |-> top_key.atom_indices[n] + atom_offset],
                top_key.mult)

\* a faulty loop body that leaves the potential store as it is
InsertSlotWithoutPotential(self_handler, handler, top_key, pot_key, atom_offset) ==
    [h |-> [self_handler EXCEPT
              !.slot_map = DictUpdate(@, OffsetKey(top_key, atom_offset), pot_key)],
     exc |-> NoExc]

\* the body of the loop over handler.slot_map.items(): the slot map gets the
\* offset key, then the potential store gets other's potential under pot_key
\* (a KeyError when other's store lacks pot_key): [h, exc]
InsertSlot(self_handler, handler, top_key, pot_key, atom_offset) ==
    LET h1 == [self_handler EXCEPT
                 !.slot_map = DictUpdate(@, OffsetKey(top_key, atom_offset), pot_key)]
    IN  IF ~DictHas(handler.potentials, pot_key)
        THEN [h |-> h1, exc |-> Exc("KeyError", pot_key)]
        ELSE [h |-> [h1 EXCEPT !.potentials =
                          DictUpdate(@, pot_key, DictGet(handler.potentials, pot_key))],
              exc |-> NoExc]

\* for top_key, pot_key in handler.slot_map.items(), from entry j on
RECURSIVE MergeSlotMap(_, _, _, _)
MergeSlotMap(self_handler, handler, j, atom_offset) ==
    IF j > Len(handler.slot_map)
    THEN [h |-> self_handler, exc |-> NoExc]
    ELSE LET one == InsertSlot(self_handler, handler,
                               handler.slot_map[j].k, handler.slot_map[j].v, atom_offset)
         IN  IF one.exc # NoExc
             THEN one
             ELSE MergeSlotMap(one.h, handler, j + 1, atom_offset)

\* for handler_name, handler in other.handlers.items(), from entry i on:
\* self_copy.handlers[handler_name] is a KeyError when self lacks the handler,
\* Electrostatics is skipped after that lookup: [handlers, exc]
RECURSIVE MergeHandlers(_, _, _, _)
MergeHandlers(self_handlers, other_handlers, i, atom_offset) ==
    IF i > Len(other_handlers)
    THEN [handlers |-> self_handlers, exc |-> NoExc]
    ELSE LET handler_name == other_handlers[i].k
             handler == other_handlers[i].v
         IN  IF ~DictHas(self_handlers, handler_name)
             THEN [handlers |-> self_handlers, exc |-> Exc("KeyError", handler_name)]
             ELSE IF handler_name = "Electrostatics"
             THEN MergeHandlers(self_handlers, other_handlers, i + 1, atom_offset)
             ELSE LET merged == MergeSlotMap(DictGet(self_handlers, handler_name),
                                             handler, 1, atom_offset)
                      updated == DictUpdate(self_handlers, handler_name, merged.h)
                  IN  IF merged.exc # NoExc
                      THEN [handlers |-> updated, exc |-> merged.exc]
                      ELSE MergeHandlers(updated, other_handlers, i + 1, atom_offset)

\* a faulty loop body that keeps the atom index of other
InsertChargeUnmoved(charges, atom_key, charge, atom_offset) ==
    DictUpdate(charges, TopologyKey(<<atom_key.atom_indices[1]>>, atom_key.mult), charge)

\* the body of the loop over other["Electrostatics"].charges.items()
InsertCharge(charges, atom_key, charge, atom_offset) ==
    DictUpdate(charges,
               TopologyKey(<<atom_key.atom_indices[1] + atom_offset>>, atom_key.mult),
               charge)

\* for atom_key, charge in other["Electrostatics"].charges.items(), from entry j on
RECURSIVE MergeCharges(_, _, _, _)
MergeCharges(charges, other_charges, j, atom_offset) ==
    IF j > Len(other_charges)
    THEN charges
    ELSE MergeCharges(InsertCharge(charges, other_charges[j].k, other_charges[j].v, atom_offset),
                      other_charges, j + 1, atom_offset)

\* the charges step: other["Electrostatics"] and self_copy["Electrostatics"]
\* go through __getitem__ and raise its LookupError on a miss: [handlers, exc]
AddCharges(self_in, other_in, atom_offset) ==
    LET theirs == GetItemOf(other_in, "str", "Electrostatics")
        mine == GetItemOf(self_in, "str", "Electrostatics")
    IN  IF theirs.exc # NoExc
        THEN [handlers |-> self_in.handlers, exc |-> theirs.exc]
        ELSE IF theirs.ret.charges = EmptyDict
        THEN [handlers |-> self_in.handlers, exc |-> NoExc]
        ELSE IF mine.exc # NoExc
        THEN [handlers |-> self_in.handlers, exc |-> mine.exc]
        ELSE [handlers |-> DictUpdate(self_in.handlers, "Electrostatics",
                              [mine.ret EXCEPT !.charges =
                                  MergeCharges(@, theirs.ret.charges, 1, atom_offset)]),
              exc |-> NoExc]

\* new_positions = np.vstack([self_copy.positions, other.positions])
NewPositions(self_positions, other_positions) == VStack(self_positions, other_positions)

\* a faulty box test that lets a missing box pass
BoxesDifferUnlessNone(self_box, other_box) ==
    ~IsNone(self_box) /\ ~IsNone(other_box) /\ ~NpAllEqual(self_box, other_box)

\* not np.all(self_copy.box == other.box)
BoxesDiffer(self_box, other_box) == ~NpAllEqual(self_box, other_box)

\* self + other on InnerSystems: [in, exc], in being self's InnerSystem after
\* the call.  accepts_object says whether the positions field accepts an
\* array of dtype object (the field's type validation is outside this file).
AddResult(self_in, other_in, accepts_object) ==
    IF self_in.topology.kind = "None" \/ other_in.topology.kind = "None"
    THEN [in |-> self_in, exc |-> Exc("AttributeError", "")]
    ELSE
    LET atom_offset == self_in.topology.n_atoms
        s1 == [self_in EXCEPT
                 !.topology = Topology(self_in.topology.molecules \o other_in.topology.molecules)]
        merged == MergeHandlers(s1.handlers, other_in.handlers, 1, atom_offset)
        s2 == [s1 EXCEPT !.handlers = merged.handlers]
        charged == AddCharges(s2, other_in, atom_offset)
        s3 == [s2 EXCEPT !.handlers = charged.handlers]
        stacked == NewPositions(s3.positions, other_in.positions)
        s4 == [s3 EXCEPT !.positions = stacked.val]
    IN  IF merged.exc # NoExc THEN [in |-> s2, exc |-> merged.exc]
        ELSE IF charged.exc # NoExc THEN [in |-> s3, exc |-> charged.exc]
        ELSE IF ~stacked.ok THEN [in |-> s3, exc |-> Exc("ValueError", "")]
        ELSE IF stacked.val.dtype = "object" /\ ~accepts_object
        THEN [in |-> s3, exc |-> Exc("ValidationError", "")]
        ELSE IF BoxesDiffer(s4.box, other_in.box)
        THEN [in |-> s4, exc |-> Exc("NotImplementedError",
                     "Combination with unequal box vectors is not curretnly supported")]
        ELSE [in |-> s4, exc |-> NoExc]

\* c = s + o
Add(s, o, accepts_object) ==
    LET res == AddResult(inner[ref[s]], inner[ref[o]], accepts_object)
    IN  /\ ref[s] # "" /\ ref[o] # "" /\ ref[s] # ref[o]
        /\ inner[ref[s]].topology.n_atoms + inner[ref[o]].topology.n_atoms <= MaxAtoms
        /\ pre' = inner
        /\ inner' = [inner EXCEPT ![ref[s]] = res.in]
        /\ ref' = IF res.exc = NoExc THEN [ref EXCEPT !["c"] = ref[s]] ELSE ref
        /\ last' = Call("add", s, o, "str", NoneVal, res.exc, NoneVal)
        /\ effects' = <<Warning("UserWarning",
                "System combination is experimental and likely to produce strange results. Use with caution!")>>
        /\ UNCHANGED <<attrs, added, environ, electrostatics>>

(***************************************************************************)
(* File exports.                                                           *)
(***************************************************************************)
\* a faulty test that takes any zero coordinate for all-zero positions
AnyCloseToZero(positions) == \E i \in 1..Len(positions.data) : positions.data[i] = 0

\* np.allclose(self.positions, 0) for an array of numbers
AllCloseToZero(positions) == \A i \in 1..Len(positions.data) : positions.data[i] = 0

\* the writer a to_gro call reaches, if any
GroWriter(in, writer) ==
    IF writer = "parmed" THEN <<Invoked("ParmEdWrapper.to_file", in)>>
    ELSE IF writer = "internal" THEN <<Invoked("interop.internal.gromacs.to_gro", in)>>
    ELSE <<>>

\* a faulty to_gro that tests the positions after the writer has run
ToGroWriterFirst(in, writer) ==
    IF IsNone(in.positions)
    THEN [exc |-> Exc("MissingPositionsError",
                      "Positions are required to write a .gro file but found None."),
          effects |-> GroWriter(in, writer)]
    ELSE [exc |-> NoExc,
          effects |-> (IF AllCloseToZero(in.positions)
                       THEN <<Warning("UserWarning",
                              "Positions seem to all be zero. Result coordinate file may be non-physical.")>>
                       ELSE <<>>) \o GroWriter(in, writer)]

\* System.to_gro(file_path, writer) on an InnerSystem: [exc, effects].
\* np.allclose raises TypeError on an array of dtype object holding None.
ToGroOf(in, writer) ==
    IF IsNone(in.positions)
    THEN [exc |-> Exc("MissingPositionsError",
                      "Positions are required to write a .gro file but found None."),
          effects |-> <<>>]
    ELSE IF in.positions.dtype = "object"
    THEN [exc |-> Exc("TypeError", ""), effects |-> <<>>]
    ELSE [exc |-> NoExc,
          effects |-> (IF AllCloseToZero(in.positions)
                       THEN <<Warning("UserWarning",
                              "Positions seem to all be zero. Result coordinate file may be non-physical.")>>
                       ELSE <<>>) \o GroWriter(in, writer)]

\* s.to_gro(file_path, writer = writer)
to_gro(s, writer) ==
    LET res == ToGroOf(inner[ref[s]], writer)
    IN  /\ ref[s] # ""
        /\ last' = Call("to_gro", s, writer, "str", NoneVal, res.exc, NoneVal)
        /\ effects' = res.effects
        /\ UNCHANGED <<inner, ref, attrs, added, environ, electrostatics>>
        /\ pre' = inner'

\* System.to_top(file_path, writer) on an InnerSystem: [exc, effects]
ToTopOf(in, writer) ==
    IF writer = "parmed"
    THEN [exc |-> NoExc, effects |-> <<Invoked("ParmEdWrapper.to_file", in)>>]
    ELSE IF writer = "internal"
    THEN [exc |-> NoExc, effects |-> <<Invoked("interop.internal.gromacs.to_top", in)>>]
    ELSE [exc |-> NoExc, effects |-> <<>>]

\* System.to_lammps(file_path, writer) on an InnerSystem: [exc, effects]
ToLammpsOf(in, writer) ==
    IF writer # "internal"
    THEN [exc |-> Exc("UnsupportedExportError", ""), effects |-> <<>>]
    ELSE [exc |-> NoExc, effects |-> <<Invoked("interop.internal.lammps.to_lammps", in)>>]

\* System.to_prmtop(file_path, writer) on an InnerSystem: [exc, effects]
ToPrmtopOf(in, writer) ==
    IF writer = "parmed"
    THEN [exc |-> NoExc, effects |-> <<Invoked("ParmEdWrapper.to_file", in)>>]
    ELSE [exc |-> Exc("UnsupportedExportError", ""), effects |-> <<>>]

\* System.to_crd(file_path, writer) on an InnerSystem: [exc, effects]
ToCrdOf(in, writer) ==
    IF writer = "parmed"
    THEN [exc |-> NoExc, effects |-> <<Invoked("ParmEdWrapper.to_file", in)>>]
    ELSE [exc |-> Exc("UnsupportedExportError", ""), effects |-> <<>>]

\* s.to_top(file_path, writer = writer)
to_top(s, writer) ==
    LET res == ToTopOf(inner[ref[s]], writer)
    IN  /\ ref[s] # ""
        /\ last' = Call("to_top", s, writer, "str", NoneVal, res.exc, NoneVal)
        /\ effects' = res.effects
        /\ UNCHANGED <<inner, ref, attrs, added, environ, electrostatics>>
        /\ pre' = inner'

\* s.to_lammps(file_path, writer = writer)
to_lammps(s, writer) ==
    LET res == ToLammpsOf(inner[ref[s]], writer)
    IN  /\ ref[s] # ""
        /\ last' = Call("to_lammps", s, writer, "str", NoneVal, res.exc, NoneVal)
        /\ effects' = res.effects
        /\ UNCHANGED <<inner, ref, attrs, added, environ, electrostatics>>
        /\ pre' = inner'

\* s.to_prmtop(file_path, writer = writer)
to_prmtop(s, writer) ==
    LET res == ToPrmtopOf(inner[ref[s]], writer)
    IN  /\ ref[s] # ""
        /\ last' = Call("to_prmtop", s, writer, "str", NoneVal, res.exc, NoneVal)
        /\ effects' = res.effects
        /\ UNCHANGED <<inner, ref, attrs, added, environ, electrostatics>>
        /\ pre' = inner'

\* s.to_crd(file_path, writer = writer)
to_crd(s, writer) ==
    LET res == ToCrdOf(inner[ref[s]], writer)
    IN  /\ ref[s] # ""
        /\ last' = Call("to_crd", s, writer, "str", NoneVal, res.exc, NoneVal)
        /\ effects' = res.effects
        /\ UNCHANGED <<inner, ref, attrs, added, environ, electrostatics>>
        /\ pre' = inner'

(***************************************************************************)
(* The OpenMM exporter (src/openff/system/interop/openmm.py).  What it     *)
(* builds is the sequence of calls it makes on the OpenMM objects.         *)
(***************************************************************************)
\* a slot-map key that is a Python str, as a sequence of characters
StrKey(text) == [text |-> text]

IsStr(key) == "text" \in DOMAIN key

DigitValue(c) ==
    CASE c = "0" -> 0 [] c = "1" -> 1 [] c = "2" -> 2 [] c = "3" -> 3 [] c = "4" -> 4
      [] c = "5" -> 5 [] c = "6" -> 6 [] c = "7" -> 7 [] c = "8" -> 8 [] c = "9" -> 9

\* eval(key): the tuple written in a str such as "(0, 1)" (of one-digit
\* indices); a TypeError for a key that is not a str: [exc, val]
Eval(key) ==
    IF ~IsStr(key)
    THEN [exc |-> Exc("TypeError", "eval() arg 1 must be a string, bytes or code object"),
          val |-> <<>>]
    ELSE LET digits == SelectSeq(key.text,
                 LAMBDA c : c \in {"0", "1", "2", "3", "4", "5", "6", "7", "8", "9"})
         IN  [exc |-> NoExc, val |-> [i \in 1..Len(digits) |-> DigitValue(digits[i])]]

\* params[name] of a potential's parameters: k, sigma come first, length,
\* angle, epsilon second
Param(potential, name) ==
    IF name \in {"k", "sigma"} THEN potential.parameters[1] ELSE potential.parameters[2]

\* value * unit
Quantity(value, unit) == [value |-> value, unit |-> unit]

\* a faulty lookup that answers a potential of zero parameters for an
\* identity the store does not have
PotentialOrDefault(handler, key) ==
    IF DictHas(handler.potentials, key)
    THEN [exc |-> NoExc, val |-> DictGet(handler.potentials, key)]
    ELSE [exc |-> NoExc, val |-> Potential(<<0, 0>>)]

\* handler.potentials[key]: a KeyError for an identity the store does not
\* have: [exc, val]
PotentialOf(handler, key) ==
    IF DictHas(handler.potentials, key)
    THEN [exc |-> NoExc, val |-> DictGet(handler.potentials, key)]
    ELSE [exc |-> Exc("KeyError", key), val |-> NoneVal]

\* the loop of _process_bond_forces from entry j on: calls are the calls made
\* on the OpenMM objects so far: [exc, calls]
RECURSIVE AddBonds(_, _, _)
AddBonds(bond_handler, j, calls) ==
    IF j > Len(bond_handler.slot_map) THEN [exc |-> NoExc, calls |-> calls]
    ELSE LET bond == bond_handler.slot_map[j].k
             key == bond_handler.slot_map[j].v
             indices == Eval(bond)
             looked == PotentialOf(bond_handler, key)
             potential == looked.val
         IN  IF indices.exc # NoExc THEN [exc |-> indices.exc, calls |-> calls]
             ELSE IF looked.exc # NoExc
             THEN [exc |-> looked.exc, calls |-> calls]
             ELSE IF Len(indices.val) < 2
             THEN [exc |-> Exc("IndexError", ""), calls |-> calls]
             ELSE AddBonds(bond_handler, j + 1,
                      Append(calls, Invoked("addBond",
                          [particle1 |-> indices.val[1], particle2 |-> indices.val[2],
                           length |-> Quantity(Param(potential, "length"), "angstrom"),
                           k |-> Quantity(Param(potential, "k"), "kcal_mol/angstrom**2")])))

\* _process_bond_forces(openff_sys, openmm_sys): [exc, calls]
process_bond_forces(in, calls) ==
    LET added_force == Append(calls, Invoked("addForce", "HarmonicBondForce"))
    IN  IF ~DictHas(in.handlers, "Bonds")
        THEN [exc |-> Exc("KeyError", "Bonds"), calls |-> added_force]
        ELSE AddBonds(DictGet(in.handlers, "Bonds"), 1, added_force)

\* the loop of _process_angle_forces from entry j on: [exc, calls]
RECURSIVE AddAngles(_, _, _)
AddAngles(angle_handler, j, calls) ==
    IF j > Len(angle_handler.slot_map) THEN [exc |-> NoExc, calls |-> calls]
    ELSE LET angle == angle_handler.slot_map[j].k
             key == angle_handler.slot_map[j].v
             indices == Eval(angle)
             looked == PotentialOf(angle_handler, key)
             potential == looked.val
         IN  IF indices.exc # NoExc THEN [exc |-> indices.exc, calls |-> calls]
             ELSE IF looked.exc # NoExc
             THEN [exc |-> looked.exc, calls |-> calls]
             ELSE IF Len(indices.val) < 3
             THEN [exc |-> Exc("IndexError", ""), calls |-> calls]
             ELSE AddAngles(angle_handler, j + 1,
                      Append(calls, Invoked("addAngle",
                          [particle1 |-> indices.val[1], particle2 |-> indices.val[2],
                           particle3 |-> indices.val[3],
                           angle |-> Quantity(Param(potential, "angle"), "degree"),
                           k |-> Quantity(Param(potential, "k"), "kcal_mol/angstrom**2")])))

\* _process_angle_forces(openff_sys, openmm_sys): [exc, calls]
process_angle_forces(in, calls) ==
    LET added_force == Append(calls, Invoked("addForce", "HarmonicAngleForce"))
    IN  IF ~DictHas(in.handlers, "Angles")
        THEN [exc |-> Exc("KeyError", "Angles"), calls |-> added_force]
        ELSE AddAngles(DictGet(in.handlers, "Angles"), 1, added_force)

\* _process_proper_torsion_forces(openff_sys, openmm_sys): pass
process_proper_torsion_forces(in, calls) == [exc |-> NoExc, calls |-> calls]

\* _process_impproper_torsion_forces(openff_sys, openmm_sys): pass
process_impproper_torsion_forces(in, calls) == [exc |-> NoExc, calls |-> calls]

\* supported_cutoff_methods: the pairings of a vdW and an electrostatics method
supported_cutoff_methods == << <<"Cutoff", "PME">> >>

\* _process_nonbonded_forces(openff_sys, openmm_sys): [exc, calls].  The loop
\* unpacks every value of the vdW slot map, a potential identity (a SMIRKS
\* pattern, longer than two characters), into two names, which is a ValueError.
process_nonbonded_forces(in, calls) ==
    LET vdw_handler == DictGet(in.handlers, "vdW")
        electrostatics_handler == DictGet(in.handlers, "Electrostatics")
        added_force == Append(calls, Invoked("addForce", "NonbondedForce"))
        configured ==
            IF vdw_handler.method = "cutoff"
            THEN IF IsNone(in.box)
                 THEN Append(added_force, Invoked("setNonbondedMethod", "NoCutoff"))
                 ELSE added_force \o
                      << Invoked("setNonbondedMethod", "PME"),
                         Invoked("setUseDispersionCorrection", TRUE),
                         Invoked("setCutoffDistance", Quantity(vdw_handler.cutoff, "angstrom")) >>
            ELSE added_force
    IN  IF ~DictHas(in.handlers, "vdW")
        THEN [exc |-> Exc("KeyError", "vdW"), calls |-> calls]
        ELSE IF vdw_handler.method \notin
                  {supported_cutoff_methods[i][1] : i \in 1..Len(supported_cutoff_methods)}
        THEN [exc |-> Exc("UnsupportedCutoffMethodError", ""), calls |-> calls]
        ELSE IF ~DictHas(in.handlers, "Electrostatics")
        THEN [exc |-> Exc("KeyError", "Electrostatics"), calls |-> calls]
        ELSE IF electrostatics_handler.method \notin
                  {supported_cutoff_methods[i][2] : i \in 1..Len(supported_cutoff_methods)}
        THEN [exc |-> Exc("UnsupportedCutoffMethodError", ""), calls |-> calls]
        ELSE IF vdw_handler.slot_map # EmptyDict
        THEN [exc |-> Exc("ValueError", "too many values to unpack (expected 2)"),
              calls |-> configured]
        ELSE [exc |-> NoExc, calls |-> configured]

\* to_openmm(openff_sys) of the exporter, called with the keyword arguments
\* kwargs next to the container: [exc, calls]
ToOpenMMOf(in, kwargs) ==
    LET created == <<Invoked("openmm.System", NoneVal)>>
        boxed == IF ~IsNone(in.box)
                 THEN Append(created, Invoked("setDefaultPeriodicBoxVectors", in.box))
                 ELSE created
        bonds == process_bond_forces(in, boxed)
        angles == process_angle_forces(in, bonds.calls)
        propers == process_proper_torsion_forces(in, angles.calls)
        impropers == process_impproper_torsion_forces(in, propers.calls)
        nonbonded == process_nonbonded_forces(in, impropers.calls)
    IN  IF kwargs # {}
        THEN [exc |-> Exc("TypeError", "to_openmm() got an unexpected keyword argument"),
              calls |-> <<>>]
        ELSE IF bonds.exc # NoExc THEN bonds
        ELSE IF angles.exc # NoExc THEN angles
        ELSE IF propers.exc # NoExc THEN propers
        ELSE IF impropers.exc # NoExc THEN impropers
        ELSE nonbonded

\* openff.system.interop.openmm.to_openmm(s)
interop_to_openmm(s) ==
    LET res == ToOpenMMOf(inner[ref[s]], {})
    IN  /\ ref[s] # ""
        /\ last' = Call("to_openmm", s, "interop", "str", NoneVal, res.exc,
                        IF res.exc = NoExc THEN Invoked("openmm.System", res.calls)
                        ELSE NoneVal)
        /\ effects' = res.calls
        /\ UNCHANGED <<inner, ref, attrs, added, environ, electrostatics>>
        /\ pre' = inner'

\* s.to_openmm(combine_nonbonded_forces = combine_nonbonded_forces)
to_openmm(s, combine_nonbonded_forces) ==
    LET res == ToOpenMMOf(inner[ref[s]], {"combine_nonbonded_forces"})
    IN  /\ ref[s] # ""
        /\ last' = Call("to_openmm", s, "System", "str", combine_nonbonded_forces, res.exc,
                        IF res.exc = NoExc THEN Invoked("openmm.System", res.calls)
                        ELSE NoneVal)
        /\ effects' = res.calls
        /\ UNCHANGED <<inner, ref, attrs, added, environ, electrostatics>>
        /\ pre' = inner'

(***************************************************************************)
(* The electrostatics collection of openff.interchange                    *)
(* (src/openff/interchange/common/_nonbonded.py).  Its charge sources are  *)
(* the entries of its key map: partial charges under a TopologyKey,        *)
(* library charges under a LibraryChargeTopologyKey and virtual-site       *)
(* charges under a VirtualSiteKey, each naming a potential that holds the  *)
(* charge.                                                                 *)
(***************************************************************************)
LibraryChargeTopologyKey(this_atom_index) == [this_atom_index |-> this_atom_index]

VirtualSiteKey(orientation_atom_indices, name) ==
    [orientation_atom_indices |-> orientation_atom_indices, name |-> name]

\* ElectrostaticsCollection(): no source, an empty charge table, nothing cached
ElectrostaticsCollection ==
    [key_map |-> EmptyDict, potentials |-> EmptyDict,
     _charges |-> EmptyDict, _charges_cached |-> FALSE]

\* collection.key_map[key] = potential_key and
\* collection.potentials[potential_key] = Potential(parameters={"charge": charge})
store_charge(key, potential_key, charge) ==
    /\ electrostatics' =
         [electrostatics EXCEPT
            !.key_map = DictUpdate(@, key, potential_key),
            !.potentials = DictUpdate(@, potential_key, Potential([charge |-> charge]))]
    /\ last' = Call("store_charge", "", potential_key, "str", key, NoExc, NoneVal)
    /\ effects' = <<>>
    /\ UNCHANGED <<inner, ref, attrs, added, environ>>
    /\ pre' = inner'

\* collection.key_map.pop(key): the source under key is withdrawn
pop_charge(key) ==
    /\ DictHas(electrostatics.key_map, key)
    /\ electrostatics' = [electrostatics EXCEPT !.key_map = DictPop(@, key)]
    /\ last' = Call("pop_charge", "", "", "str", key, NoExc, NoneVal)
    /\ effects' = <<>>
    /\ UNCHANGED <<inner, ref, attrs, added, environ>>
    /\ pre' = inner'

\* ElectrostaticsCollection._get_charges(self)
GetCharges(collection) == [exc |-> Exc("NotImplementedError", ""), ret |-> NoneVal]

\* ElectrostaticsCollection.charges (the property): a read of the charges
ReadCharges ==
    LET res == GetCharges(electrostatics)
    IN  /\ last' = Call("charges", "", "", "str", NoneVal, res.exc, res.ret)
        /\ effects' = <<>>
        /\ UNCHANGED <<inner, ref, attrs, added, environ, electrostatics>>
        /\ pre' = inner'

(***************************************************************************)
(* Virtual sites of the OpenMM exporter                                    *)
(* (src/openff/interchange/interop/openmm/_virtual_sites.py).  Numbers are *)
(* exact fractions [num, den]; lengths are quantities of a whole number of *)
(* angstrom or nanometer.                                                  *)
(***************************************************************************)
Abs(x) == IF x < 0 THEN 0 - x ELSE x

RECURSIVE GCD(_, _)
GCD(a, b) == IF b = 0 THEN a ELSE GCD(b, a % b)

\* the fraction n / d in lowest terms with a positive denominator
Rat(n, d) ==
    LET g == GCD(Abs(n), Abs(d))
    IN  IF d < 0 THEN [num |-> (0 - n) \div g, den |-> (0 - d) \div g]
        ELSE [num |-> n \div g, den |-> d \div g]

RatAdd(x, y) == Rat(x.num * y.den + y.num * x.den, x.den * y.den)

RatSub(x, y) == Rat(x.num * y.den - y.num * x.den, x.den * y.den)

RatMul(x, y) == Rat(x.num * y.num, x.den * y.den)

RatDiv(x, y) == Rat(x.num * y.den, x.den * y.num)

\* the square root of a fraction whose numerator and denominator are squares
RatSqrt(x) ==
    [num |-> CHOOSE n \in 0..x.num : n * n = x.num,
     den |-> CHOOSE n \in 1..x.den : n * n = x.den]

\* length.m_as(unit.nanometer)
InNanometer(length) ==
    IF length.unit = "angstrom" THEN Rat(length.value, 10) ELSE Rat(length.value, 1)

\* a faulty ratio that divides the magnitudes whatever their units
RatioOfMagnitudes(distance, separation) == Rat(distance.value, separation.value)

\* (distance / separation).m_as(unit.dimensionless)
DimensionlessRatio(distance, separation) ==
    RatDiv(InNanometer(distance), InNanometer(separation))

\* a virtual site: its type, its orientation atoms (indices in the
\* topology), its distance and, for a divalent lone pair, its out-of-plane
\* angle in degrees
VirtualSite(type, orientations, distance, out_of_plane_angle) ==
    [type |-> type, orientations |-> orientations, distance |-> distance,
     out_of_plane_angle |-> out_of_plane_angle]

\* a faulty test that does not look at the out-of-plane angle
EqualBonds(virtual_site, r12, r13) == r12 = r13

\* r12 == r13 and float(virtual_site.out_of_plane_angle.m) == 0.0, r12 and
\* r13 being compared as lengths
EqualBondsInPlane(virtual_site, r12, r13) ==
    r12 = r13 /\ virtual_site.out_of_plane_angle = 0

\* _create_openmm_virtual_site(interchange, virtual_site, openff_openmm_particle_map):
\* the openmm.VirtualSite returned.  separations are the separations
\* _get_separation_by_atom_indices finds in the interchange between the
\* orientation atoms: r12 between the first two, r13 between the first and
\* the third, r23 between the last two.
create_openmm_virtual_site(separations, virtual_site, openff_openmm_particle_map) ==
    LET openmm_indices ==
            [i \in 1..Len(virtual_site.orientations) |->
                openff_openmm_particle_map[virtual_site.orientations[i]]]
        ratio == DimensionlessRatio(virtual_site.distance, separations.r12)
        r12 == InNanometer(separations.r12)
        r13 == InNanometer(separations.r13)
        r23 == InNanometer(separations.r23)
        \* cos(theta), theta = arccos((r23**2 - r12**2 - r13**2) / (-2 * r12 * r13))
        cos_theta == RatDiv(RatSub(RatSub(RatMul(r23, r23), RatMul(r12, r12)), RatMul(r13, r13)),
                            RatMul(Rat(0 - 2, 1), RatMul(r12, r13)))
        \* cos(theta / 2) = sqrt((1 + cos(theta)) / 2)
        r1mid == RatMul(RatSqrt(RatDiv(RatAdd(Rat(1, 1), cos_theta), Rat(2, 1))), r12)
        w1 == RatAdd(Rat(1, 1), RatDiv(InNanometer(virtual_site.distance), r1mid))
    IN  IF virtual_site.type = "BondCharge"
        THEN [type |-> "TwoParticleAverageSite", particles |-> openmm_indices,
              weights |-> <<RatAdd(Rat(1, 1), ratio), RatSub(Rat(0, 1), ratio)>>]
        ELSE IF virtual_site.type = "DivalentLonePair"
                /\ EqualBondsInPlane(virtual_site, r12, r13)
        THEN [type |-> "ThreeParticleAverageSite", particles |-> openmm_indices,
              weights |-> <<w1, RatDiv(RatSub(Rat(1, 1), w1), Rat(2, 1)),
                            RatDiv(RatSub(Rat(1, 1), w1), Rat(2, 1))>>]
        ELSE [type |-> "LocalCoordinatesSite", particles |-> openmm_indices,
              weights |-> <<"originwt", "xdir", "ydir">>]

\* _create_openmm_virtual_site(interchange, virtual_site, openff_openmm_particle_map)
CreateVirtualSite(separations, virtual_site, openff_openmm_particle_map) ==
    /\ last' = Call("_create_openmm_virtual_site", "", virtual_site.type, "str",
                    [separations |-> separations, virtual_site |-> virtual_site,
                     openff_openmm_particle_map |-> openff_openmm_particle_map],
                    NoExc,
                    create_openmm_virtual_site(separations, virtual_site,
                                               openff_openmm_particle_map))
    /\ effects' = <<>>
    /\ UNCHANGED <<inner, ref, attrs, added, environ, electrostatics>>
    /\ pre' = inner'

(***************************************************************************)
(* The experimental entry points from_openmm and from_gromacs and the      *)
(* environment flag that enables them.                                     *)
(***************************************************************************)
\* monkeypatch.setenv(name, value)
setenv(name, value) ==
    /\ environ' = DictUpdate(environ, name, value)
    /\ last' = Call("setenv", "", name, "str", value, NoExc, NoneVal)
    /\ effects' = <<>>
    /\ UNCHANGED <<inner, ref, attrs, added, electrostatics>>
    /\ pre' = inner'

\* monkeypatch.delenv(name): the variable is unset again
delenv(name) ==
    /\ DictHas(environ, name)
    /\ environ' = DictPop(environ, name)
    /\ last' = Call("delenv", "", name, "str", NoneVal, NoExc, NoneVal)
    /\ effects' = <<>>
    /\ UNCHANGED <<inner, ref, attrs, added, electrostatics>>
    /\ pre' = inner'

\* a faulty gate that lets a call without arguments fail on its arguments first
ExperimentalAfterArguments(env, importer, args, import_raises) ==
    IF args = {}
    THEN [exc |-> Exc("TypeError", ""), effects |-> <<>>]
    ELSE IF ~DictHas(env, "INTERCHANGE_EXPERIMENTAL")
    THEN [exc |-> Exc("ExperimentalFeatureException", ""), effects |-> <<>>]
    ELSE [exc |-> IF import_raises THEN Exc("Exception", "") ELSE NoExc,
          effects |-> <<Invoked(importer, args)>>]

\* an entry point behind the experimental gate, called with the keyword
\* arguments args: with the flag unset it raises at once, with the flag set
\* the import logic runs on the arguments and may raise: [exc, effects]
Experimental(env, importer, args, import_raises) ==
    IF ~DictHas(env, "INTERCHANGE_EXPERIMENTAL")
    THEN [exc |-> Exc("ExperimentalFeatureException", ""), effects |-> <<>>]
    ELSE [exc |-> IF import_raises THEN Exc("Exception", "") ELSE NoExc,
          effects |-> <<Invoked(importer, args)>>]

\* Interchange.from_openmm(**args)
from_openmm(args, import_raises) ==
    LET res == Experimental(environ, "interop.openmm.from_openmm", args, import_raises)
    IN  /\ last' = Call("from_openmm", "", "", "str", args, res.exc, NoneVal)
        /\ effects' = res.effects
        /\ UNCHANGED <<inner, ref, attrs, added, environ, electrostatics>>
        /\ pre' = inner'

\* Interchange.from_gromacs(**args)
from_gromacs(args, import_raises) ==
    LET res == Experimental(environ, "interop.gromacs.from_gromacs", args, import_raises)
    IN  /\ last' = Call("from_gromacs", "", "", "str", args, res.exc, NoneVal)
        /\ effects' = res.effects
        /\ UNCHANGED <<inner, ref, attrs, added, environ, electrostatics>>
        /\ pre' = inner'

(***************************************************************************)
(* Inputs.                                                                 *)
(***************************************************************************)
\* an (n, 3) array of positions with every coordinate v
Rows(n, v) == NdArray(<<n, 3>>, [i \in 1..(3 * n) |-> v])

\* a value of shape (6,), as in box = [2, 2, 3, 90, 90, 90]
Vec6 == NdArray(<<6>>, <<2, 2, 3, 90, 90, 90>>)

\* 3-vectors of box edge lengths
BoxVectors == {Vec3(x, y, z) : x \in 0..MaxBox, y \in 0..MaxBox, z \in 0..MaxBox}

\* 3x3 boxes: the diagonal ones and triclinic ones
BoxMatrices ==
    {NdArray(<<3, 3>>, <<m[1], 0, 0, t, m[2], 0, t, t, m[3]>>) :
        m \in (0..MaxBox) \X (0..MaxBox) \X (0..MaxBox), t \in 0..1}

\* values whose shape is neither (3,) nor (3, 3)
OtherShapes ==
    {Vec6, NdArray(<<2>>, <<1, 1>>), NdArray(<<2, 3>>, <<1, 0, 0, 0, 1, 0>>),
     NdArray(<<1, 3, 3>>, Eye3.data), NdArray(<<>>, <<1>>)}

BoxInputs == {NoneVal} \cup OtherShapes \cup BoxVectors \cup BoxMatrices

\* the boxes used where the box is not what is examined
FewBoxInputs == {NoneVal, Vec3(1, 1, 1), Diag(MaxBox, MaxBox, MaxBox)}

\* positions for a system of n atoms: None, all zero
PositionInputs(n) == {NoneVal, Rows(n, 0)}

\* positions of a system of n atoms as they are exported: None, all zero,
\* all one, and zero but for the last coordinate
ExportPositionInputs(n) ==
    {NoneVal, Rows(n, 0), Rows(n, 1),
     NdArray(<<n, 3>>, [i \in 1..(3 * n) |-> IF i = 3 * n THEN 1 ELSE 0])}

\* the writer argument of an export: the two writers of to_gro and another name
Writers == {"internal", "parmed", "openmm"}

\* the keyword arguments of from_openmm and of from_gromacs
OpenMMArguments == {"topology", "system", "positions", "box_vectors"}

GromacsArguments == {"topology_file", "gro_file"}

\* parameter handlers a force field may register next to Bonds, vdW and
\* Electrostatics: two that are not supported and one that is skipped
ExtraHandlers == {"bogus", "GBSA", "ToolkitAM1BCC"}

\* force_field.registered_parameter_handlers
RegisteredInputs ==
    {<<"Bonds", "vdW", "Electrostatics">>, <<"Constraints", "Bonds", "vdW", "Electrostatics">>}
    \cup {<<"Bonds", "vdW", "Electrostatics", x>> : x \in ExtraHandlers}
    \cup {<<"Bonds", "vdW", "Electrostatics", p[1], p[2]>> :
             p \in {q \in ExtraHandlers \X ExtraHandlers : q[1] # q[2]}}

\* topology arguments: an OFFBioTop, a toolkit Topology, an OpenMM topology,
\* of one molecule without box vectors or of the other with box vectors
TopologyInputs ==
    {TopologyArgument(kind, <<"M1">>, NoneVal) :
        kind \in {"OFFBioTop", "Topology", "openmm.Topology"}}
    \cup {TopologyArgument(kind, <<"M2">>, Vec3(1, 1, 1)) :
        kind \in {"OFFBioTop", "Topology", "openmm.Topology"}}

\* the str keys "(0, 1)", "(1, 2)" and "(0, 1, 2)"
Key01 == StrKey(<<"(", "0", ",", " ", "1", ")">>)

Key12 == StrKey(<<"(", "1", ",", " ", "2", ")">>)

Key012 == StrKey(<<"(", "0", ",", " ", "1", ",", " ", "2", ")">>)

\* handlers of a container that is exported to OpenMM.  Bonds and Angles:
\* none, keyed by TopologyKey, keyed by str (two bonds of different
\* potentials, or a term whose potential is missing from the store); vdW and
\* Electrostatics: with each spelling of the method, with and without atoms;
\* torsions: two terms of different multiplicity on the same four atoms
OpenMMHandlerInputs(name) ==
    IF name = "Bonds"
    THEN {Handler("Bonds", EmptyDict, EmptyDict, EmptyDict),
          FromToolkit("Bonds", "FF1", <<"M2">>),
          Handler("Bonds", <<[k |-> Key01, v |-> "b1"], [k |-> Key12, v |-> "b2"]>>,
                  <<[k |-> "b1", v |-> Potential(<<5, 1>>)],
                    [k |-> "b2", v |-> Potential(<<7, 2>>)]>>, EmptyDict),
          Handler("Bonds", <<[k |-> Key01, v |-> "b1"]>>, EmptyDict, EmptyDict)}
    ELSE IF name = "Angles"
    THEN {Handler("Angles", EmptyDict, EmptyDict, EmptyDict),
          Handler("Angles", <<[k |-> TopologyKey(<<0, 1, 2>>, <<>>), v |-> "a1"]>>,
                  <<[k |-> "a1", v |-> Potential(<<4, 3>>)]>>, EmptyDict),
          Handler("Angles", <<[k |-> Key012, v |-> "a1"]>>,
                  <<[k |-> "a1", v |-> Potential(<<4, 3>>)]>>, EmptyDict),
          Handler("Angles", <<[k |-> Key012, v |-> "a2"]>>,
                  <<[k |-> "a1", v |-> Potential(<<4, 3>>)]>>, EmptyDict)}
    ELSE IF name \in {"ProperTorsions", "ImproperTorsions"}
    THEN {Handler(name, <<[k |-> TopologyKey(<<0, 1, 2, 3>>, <<0>>), v |-> "t1"],
                         [k |-> TopologyKey(<<0, 1, 2, 3>>, <<1>>), v |-> "t2"]>>,
                  <<[k |-> "t1", v |-> Potential(<<1, 2>>)],
                    [k |-> "t2", v |-> Potential(<<3, 2>>)]>>, EmptyDict)}
    ELSE IF name = "vdW"
    THEN {FromToolkit("vdW", "FF1", <<"M1">>),
          [FromToolkit("vdW", "FF1", <<"M1">>) EXCEPT !.method = "Cutoff"],
          [Handler("vdW", EmptyDict, EmptyDict, EmptyDict) EXCEPT !.method = "Cutoff"]}
    ELSE {FromToolkit("Electrostatics", "FF1", <<"M1">>),
          [FromToolkit("Electrostatics", "FF1", <<"M1">>) EXCEPT !.method = "Coulomb"]}

\* the keys of charge sources on two atoms: a partial charge on each, a
\* library charge on the first and a virtual site on the second, each with
\* the identity of its potential
ChargeSourceInputs ==
    {<<TopologyKey(<<0>>, <<>>), "am1bcc_0">>, <<TopologyKey(<<1>>, <<>>), "am1bcc_1">>,
     <<LibraryChargeTopologyKey(0), "library_0">>,
     <<VirtualSiteKey(<<1>>, "EP"), "virtual_site_EP">>}

\* lengths of a whole number of angstrom or nanometer
Lengths(values) == {Quantity(v, u) : v \in values, u \in {"angstrom", "nanometer"}}

\* maps from topology index to OpenMM particle index for four atoms: the
\* identity, and one in which a virtual-site particle follows the first atom
ParticleMaps == {[i \in 0..3 |-> i], [i \in 0..3 |-> IF i = 0 THEN 0 ELSE i + 1]}

\* bond-charge sites with the separation of their two orientation atoms
BondChargeInputs ==
    {<<[r12 |-> s, r13 |-> s, r23 |-> s], VirtualSite("BondCharge", o, d, 0)>> :
        s \in Lengths(1..MaxSeparation),
        d \in Lengths((0 - MaxDistance)..MaxDistance),
        o \in {<<0, 1>>, <<3, 2>>}}

\* divalent lone pairs on an isosceles triangle (5, 5, 6), in the plane and
\* out of it, on the isosceles triangle of sides 10 angstrom, 1 nanometer and
\* 12 angstrom, and on a triangle (5, 4, 3); a trivalent and a monovalent
\* lone pair
OtherSiteInputs ==
    {<<[r12 |-> Quantity(10, "angstrom"), r13 |-> Quantity(1, "nanometer"),
        r23 |-> Quantity(12, "angstrom")],
       VirtualSite("DivalentLonePair", <<2, 0, 1>>, Quantity(d, "angstrom"), a)>> :
        d \in {0 - 1, 1}, a \in {0, 30}}
    \cup
    {<<[r12 |-> Quantity(5, "angstrom"), r13 |-> Quantity(4, "angstrom"),
        r23 |-> Quantity(3, "angstrom")],
       VirtualSite("MonovalentLonePair", <<1, 2, 3>>, Quantity(1, "angstrom"), 0)>>}
    \cup
    {<<[r12 |-> Quantity(5, "angstrom"), r13 |-> Quantity(5, "angstrom"),
        r23 |-> Quantity(6, "angstrom")],
       VirtualSite("DivalentLonePair", <<0, 1, 2>>, Quantity(d, "angstrom"), a)>> :
        d \in (0 - MaxDistance)..MaxDistance, a \in {0, 30}}
    \cup
    {<<[r12 |-> Quantity(5, "angstrom"), r13 |-> Quantity(4, "angstrom"),
        r23 |-> Quantity(3, "angstrom")],
       VirtualSite(t, o, Quantity(1, "angstrom"), 0)>> :
        t \in {"DivalentLonePair", "TrivalentLonePair"}, o \in {<<0, 1, 2>>}}

\* handlers passed to add_handler: an empty one and one parameterized by the toolkit
HandlerInputs(name) ==
    {Handler(name, EmptyDict, EmptyDict, EmptyDict), FromToolkit(name, "FF2", <<"M1">>)}

\* keys passed to __getitem__: [type, value]
ItemInputs ==
    {<<"str", n>> : n \in HandlerNames \cup {"CMAPs", "positions", "box", "box_vectors"}}
    \cup {<<"int", "1">>, <<"strsubclass", "vdW">>, <<"strsubclass", "box">>}

AttrNames == {"box", "box_vectors", "positions", "coordinates", "topology", "top"}

\* the values assigned to an attribute of a system of n atoms
AttrInputs(name, n) ==
    IF name \in {"box", "box_vectors"} THEN FewBoxInputs \cup {Vec6}
    ELSE IF name \in {"positions", "coordinates"} THEN PositionInputs(n)
    ELSE {NoTopology, Topology(<<"M1">>), Topology(<<"M2">>)}

(***************************************************************************)
(* Specifications.                                                         *)
(***************************************************************************)
\* a = from_smirnoff(FF1, [ma]); b = from_smirnoff(ff, [mb], box = bbox);
\* b.positions = None or all one
Built(ma, mb, ff, bbox, bpos) ==
        /\ inner = [a |-> from_smirnoff("FF1", <<ma>>, NoneVal),
                    b |-> [from_smirnoff(ff, <<mb>>, bbox) EXCEPT
                             !.positions = IF bpos = 0 THEN NoneVal
                                           ELSE Rows(Len(MolAtoms(mb)), 1)]]
        /\ ref = [a |-> "a", b |-> "b", c |-> ""]
        /\ attrs = [s \in Systems |-> EmptyDict]
        /\ pre = inner
        /\ last = Call("from_smirnoff", "a", "FF1", "str",
                       [registered |-> <<"Bonds", "vdW", "Electrostatics">>,
                        topology |-> TopologyArgument("OFFBioTop", <<ma>>, NoneVal),
                        box |-> NoneVal],
                       NoExc, inner["a"])
        /\ added = [n \in HandlerNames |->
                       IF DictHas(inner["a"].handlers, n)
                       THEN DictGet(inner["a"].handlers, n) ELSE NoHandler]
        /\ effects = FromSmirnoffOf("FF1", <<"Bonds", "vdW", "Electrostatics">>,
                                    TopologyArgument("OFFBioTop", <<ma>>, NoneVal),
                                    NoneVal).effects
        /\ environ = EmptyDict
        /\ electrostatics = ElectrostaticsCollection

Init ==
    \E ma \in Molecules, mb \in Molecules, ff \in ForceFields,
       bbox \in {NoneVal, Vec3(1, 1, 1)}, bpos \in {0, 1} : Built(ma, mb, ff, bbox, bpos)

\* the same with one b, where b plays no part
InitOne == \E ma \in Molecules : Built(ma, "M1", "FF1", NoneVal, 0)

\* a is mutated and combined with b any number of times; handlers are added and
\* removed under vdW, which the combination merges as it does Bonds, and under
\* Electrostatics, which it merges through the charges
Next ==
    \/ \E n \in {"vdW", "Electrostatics"} : add_handler("a", n, FromToolkit(n, "FF2", <<"M1">>))
    \/ \E n \in {"vdW", "Electrostatics"} : remove_handler("a", n)
    \/ \E v \in FewBoxInputs : SetAttr("a", "box", v)
    \/ \E v \in PositionInputs(inner["a"].topology.n_atoms) : SetAttr("a", "positions", v)
    \/ \E accepts_object \in BOOLEAN : Add("a", "b", accepts_object)

Spec == Init /\ [][Next]_vars

\* handlers are added, removed and looked up
NextLookup ==
    \/ \E n \in {"Bonds", "vdW", "Electrostatics"} :
         \E h \in HandlerInputs(n) : add_handler("a", n, h)
    \/ \E n \in {"Bonds", "vdW", "Electrostatics"} : remove_handler("a", n)
    \/ \E item \in ItemInputs : GetItem("a", item[1], item[2])

SpecLookup == InitOne /\ [][NextLookup]_vars

\* attributes are assigned and read under their names and their aliases
NextAlias ==
    \/ \E name \in AttrNames :
         \E v \in AttrInputs(name, inner["a"].topology.n_atoms) : SetAttr("a", name, v)
    \/ \E name \in AttrNames : GetAttr("a", name)
    \/ \E name \in AttrNames : GetItem("a", "str", name)

SpecAlias == InitOne /\ [][NextAlias]_vars

\* the box is assigned values of every shape
NextBox ==
    \/ \E v \in BoxInputs : SetAttr("a", "box", v)
    \/ GetItem("a", "str", "box")

SpecBox == InitOne /\ [][NextBox]_vars

\* positions and box are assigned and the container is written to files
NextExport ==
    \/ \E v \in ExportPositionInputs(inner["a"].topology.n_atoms) : SetAttr("a", "positions", v)
    \/ \E v \in FewBoxInputs : SetAttr("a", "box", v)
    \/ \E writer \in Writers : to_gro("a", writer)
    \/ \E writer \in Writers : to_top("a", writer)
    \/ \E writer \in Writers : to_lammps("a", writer)
    \/ \E writer \in Writers : to_prmtop("a", writer)
    \/ \E writer \in Writers : to_crd("a", writer)

SpecExport == InitOne /\ [][NextExport]_vars

\* charge sources are stored and withdrawn and the charges are read
NextCharges ==
    \/ \E source \in ChargeSourceInputs, charge \in {0 - 1, 1} :
         store_charge(source[1], source[2], charge)
    \/ \E source \in ChargeSourceInputs : pop_charge(source[1])
    \/ ReadCharges

SpecCharges == InitOne /\ [][NextCharges]_vars

\* virtual sites are translated for OpenMM
NextVirtualSite ==
    \E site \in BondChargeInputs \cup OtherSiteInputs, map \in ParticleMaps :
        CreateVirtualSite(site[1], site[2], map)

SpecVirtualSite == InitOne /\ [][NextVirtualSite]_vars

\* handlers are registered, the box is set and the container is exported to
\* OpenMM, through the exporter and through the method of System
NextOpenMM ==
    \/ \E n \in HandlerNames : \E h \in OpenMMHandlerInputs(n) : add_handler("a", n, h)
    \/ \E v \in {NoneVal, Vec3(1, 1, 1)} : SetAttr("a", "box", v)
    \/ interop_to_openmm("a")
    \/ \E combine_nonbonded_forces \in BOOLEAN : to_openmm("a", combine_nonbonded_forces)

SpecOpenMM == InitOne /\ [][NextOpenMM]_vars

\* containers are built from force fields and topologies of every kind
NextSmirnoff ==
    \E registered \in RegisteredInputs, topology \in TopologyInputs,
       box \in {NoneVal, Vec6} :
        FromSmirnoff("a", "FF1", registered, topology, box)

SpecSmirnoff == InitOne /\ [][NextSmirnoff]_vars

\* the flag is set and unset and the experimental entry points are called
\* with any of their keyword arguments
NextImport ==
    \/ setenv("INTERCHANGE_EXPERIMENTAL", "1")
    \/ delenv("INTERCHANGE_EXPERIMENTAL")
    \/ \E args \in SUBSET OpenMMArguments, import_raises \in BOOLEAN :
         from_openmm(args, import_raises)
    \/ \E args \in SUBSET GromacsArguments, import_raises \in BOOLEAN :
         from_gromacs(args, import_raises)

SpecImport == InitOne /\ [][NextImport]_vars

(***************************************************************************)
(* What is read off a container.                                           *)
(***************************************************************************)
\* Collection.get_system_parameters: one row of parameters per slot-map
\* entry, in the order of the slot map
RECURSIVE get_system_parameters(_, _)
get_system_parameters(handler, i) ==
    IF i > Len(handler.slot_map) THEN <<>>
    ELSE <<DictGet(handler.potentials, handler.slot_map[i].v).parameters>>
         \o get_system_parameters(handler, i + 1)

\* the entries of a dict as a set
Entries(d) == {<<d[i].k, d[i].v>> : i \in 1..Len(d)}

\* the container s
Container(s) == inner[ref[s]]

\* the last call was a + b and it returned
Combined == last.op = "add" /\ last.exc = NoExc

(***************************************************************************)
(* C1: when either operand of a + b has no positions the combination does  *)
(* not fail for that and the result has no positions; when both have       *)
(* positions the result's are a's rows followed by b's, n_a + n_b of them. *)
(***************************************************************************)
C1_PositionsAnd ==
    last.op = "add" =>
        LET pa == pre["a"].positions
            pb == pre["b"].positions
        IN  /\ (IsNone(pa) \/ IsNone(pb)) =>
                 /\ last.exc.type \notin {"ValueError", "ValidationError"}
                 /\ last.exc = NoExc => IsNone(Container("c").positions)
            /\ (~IsNone(pa) /\ ~IsNone(pb) /\ last.exc = NoExc) =>
                 /\ Container("c").positions.data = pa.data \o pb.data
                 /\ Container("c").positions.shape[1] = pa.shape[1] + pb.shape[1]

(***************************************************************************)
(* C2: after c = a + b the left operand a is as it was before the call     *)
(* (topology, handlers, charges, positions, box) and c is not a's state.   *)
(***************************************************************************)
C2_LeftOperandUnchanged ==
    Combined => /\ inner["a"] = pre["a"]
                /\ ref["c"] # ref["a"]

\* the same atom count, slot-map entries and charge entries
SameStructure(x, y) ==
    /\ x.topology.n_atoms = y.topology.n_atoms
    /\ DictKeys(x.handlers) = DictKeys(y.handlers)
    /\ \A i \in 1..Len(x.handlers) :
         /\ Entries(x.handlers[i].v.slot_map) = Entries(y.handlers[i].v.slot_map)
         /\ Entries(x.handlers[i].v.charges) = Entries(y.handlers[i].v.charges)

(***************************************************************************)
(* C3: a + b evaluated twice in a row gives structurally identical         *)
(* results: the same atom count, slot maps and charge tables.              *)
(***************************************************************************)
C3_CombinationDeterministic ==
    [][(Combined /\ last'.op = "add" /\ last'.exc = NoExc /\ pre' = inner)
         => SameStructure(inner'[ref'["c"]], inner[ref["c"]])]_vars

(***************************************************************************)
(* C4: a + b raises whenever the boxes of a and b differ (one of them None *)
(* included), returns only when they are equal, and the result's box is    *)
(* then that common box.                                                   *)
(***************************************************************************)
C4_UnequalBoxesFail ==
    last.op = "add" =>
        /\ pre["a"].box # pre["b"].box => last.exc # NoExc
        /\ last.exc = NoExc => /\ pre["a"].box = pre["b"].box
                               /\ Container("c").box = pre["b"].box

\* a and b have the same box, not None, and a + b returned with it
C4_Witness ==
    /\ Combined
    /\ ~IsNone(pre["a"].box)
    /\ Container("c").box = pre["b"].box

(***************************************************************************)
(* C5: the vdW parameter table of a + b is the rows of a's table followed  *)
(* by the rows of b's table.                                               *)
(***************************************************************************)
C5_VdwTableConcatenated ==
    (Combined /\ DictHas(pre["a"].handlers, "vdW") /\ DictHas(pre["b"].handlers, "vdW")) =>
        get_system_parameters(DictGet(Container("c").handlers, "vdW"), 1)
          = get_system_parameters(DictGet(pre["a"].handlers, "vdW"), 1)
            \o get_system_parameters(DictGet(pre["b"].handlers, "vdW"), 1)

\* every slot-map entry of every handler resolves in the handler's potential store
ReferentialIntegrity(in) ==
    \A i \in 1..Len(in.handlers) :
        \A j \in 1..Len(in.handlers[i].v.slot_map) :
            DictHas(in.handlers[i].v.potentials, in.handlers[i].v.slot_map[j].v)

(***************************************************************************)
(* C6: in every container reached by add_handler, remove_handler, box and  *)
(* positions assignment and combination, every slot-map key of every       *)
(* handler maps to a potential identity present in the handler's store.    *)
(***************************************************************************)
C6_ReferentialIntegrity ==
    \A s \in Systems : ref[s] # "" => ReferentialIntegrity(Container(s))

\* a combination has put a potential identity into c's vdW store that a's did not hold
C6_Witness ==
    /\ Combined
    /\ DictHas(pre["a"].handlers, "vdW")
    /\ \E j \in 1..Len(DictGet(Container("c").handlers, "vdW").slot_map) :
         ~DictHas(DictGet(pre["a"].handlers, "vdW").potentials,
                  DictGet(Container("c").handlers, "vdW").slot_map[j].v)

(***************************************************************************)
(* C7: a lookup with a key that is not a str raises the "Only str" lookup  *)
(* error, whatever is registered and even when the key equals a name that  *)
(* would be found; the error differs from the one for a missing handler;   *)
(* the container is left as it was.                                        *)
(***************************************************************************)
C7_NonStringLookup ==
    [][(last'.op = "getitem" /\ last'.item_type # "str") =>
         /\ last'.exc.type = "LookupError"
         /\ last'.exc.msg = "Only str arguments can be currently be used for lookups."
         /\ last'.exc # GetItemOf(inner'["a"], "str", "CMAPs").exc
         /\ inner' = inner /\ ref' = ref /\ attrs' = attrs]_vars

\* a key that is not a str but equals the name of a registered handler was looked up
C7_Witness ==
    /\ last.op = "getitem"
    /\ last.item_type = "strsubclass"
    /\ DictHas(inner["a"].handlers, last.name)
    /\ last.exc # NoExc

\* the names under which a handler was added and not removed since
Registered == {n \in HandlerNames : added[n] # NoHandler}

(***************************************************************************)
(* C8: after any add_handler and remove_handler calls, container[name] for *)
(* a string name other than positions, box, box_vectors returns the        *)
(* handler most recently added under the name if it was not removed since, *)
(* and otherwise raises the missing-handler error, whose message lists     *)
(* exactly the names registered at that moment.                            *)
(***************************************************************************)
C8_LookupByName ==
    (last.op = "getitem" /\ last.item_type = "str"
       /\ last.name \notin {"positions", "box", "box_vectors"}) =>
        IF last.name \in Registered
        THEN last.exc = NoExc /\ last.ret = added[last.name]
        ELSE /\ last.exc.type = "LookupError"
             /\ last.exc.msg = "Could not find component"
             /\ {last.exc.names[i] : i \in 1..Len(last.exc.names)} = Registered
             /\ Len(last.exc.names) = Cardinality(Registered)

\* a handler added over the one from_smirnoff registered was looked up
C8_Witness ==
    /\ last.op = "getitem"
    /\ last.exc = NoExc
    /\ last.name = "vdW"
    /\ last.ret = Handler("vdW", EmptyDict, EmptyDict, EmptyDict)

\* a name together with its alias
AliasGroup(name) ==
    IF name \in {"box", "box_vectors"} THEN {"box", "box_vectors"}
    ELSE IF name \in {"positions", "coordinates"} THEN {"positions", "coordinates"}
    ELSE {"topology", "top"}

(***************************************************************************)
(* C9: an alias and its canonical name read and write one stored field:    *)
(* after a value is assigned through either name of box / box_vectors,     *)
(* positions / coordinates or topology / top, reading the attribute        *)
(* through either name returns the stored value, and so does the item      *)
(* lookup of box and box_vectors.                                          *)
(***************************************************************************)
C9_AliasesShareField ==
    (last.op = "setattr" /\ last.exc = NoExc) =>
        LET stored == IF last.name \in {"box", "box_vectors"}
                      THEN validate_box(last.value).val ELSE last.value
        IN  /\ \A m \in AliasGroup(last.name) :
                 GetAttrOf("a", m) = [exc |-> NoExc, ret |-> stored]
            /\ last.name \in {"box", "box_vectors"} =>
                 \A m \in {"box", "box_vectors"} :
                     GetItemOf(inner["a"], "str", m) = [exc |-> NoExc, ret |-> stored]

(***************************************************************************)
(* C10: assigning the 3-vector [x, y, z] to the box stores the 3x3 matrix  *)
(* with x, y, z on the diagonal and zeros elsewhere, which is what         *)
(* assigning that matrix stores; a 3x3 matrix is stored unchanged and None *)
(* is stored as None.                                                      *)
(***************************************************************************)
C10_BoxSetter ==
    (last.op = "setattr" /\ last.name = "box") =>
        LET v == last.value
        IN  /\ IsNone(v) => last.exc = NoExc /\ IsNone(inner["a"].box)
            /\ (~IsNone(v) /\ v.shape = <<3, 3>>) => last.exc = NoExc /\ inner["a"].box = v
            /\ (~IsNone(v) /\ v.shape = <<3>>) =>
                 /\ last.exc = NoExc
                 /\ inner["a"].box.shape = <<3, 3>>
                 /\ inner["a"].box.data =
                      <<v.data[1], 0, 0, 0, v.data[2], 0, 0, 0, v.data[3]>>

\* a 3-vector with three different edges was assigned
C10_Witness ==
    /\ last.op = "setattr" /\ last.name = "box" /\ last.exc = NoExc
    /\ last.value.shape = <<3>>
    /\ last.value.data[1] # last.value.data[2]
    /\ last.value.data[2] # last.value.data[3]
    /\ inner["a"].box.data[5] = last.value.data[2]

(***************************************************************************)
(* C11: assigning to the box a value whose shape is neither (3,) nor       *)
(* (3, 3), such as the six numbers a, b, c, alpha, beta, gamma, raises a   *)
(* validation error at the assignment and leaves the stored box, and the   *)
(* rest of the container, as it was.                                       *)
(***************************************************************************)
C11_BadBoxRejected ==
    [][(last'.op = "setattr" /\ last'.name = "box" /\ ~IsNone(last'.value)
          /\ last'.value.shape \notin {<<3>>, <<3, 3>>}) =>
         /\ last'.exc.type = "ValidationError"
         /\ inner' = inner /\ attrs' = attrs]_vars

\* six numbers were assigned to a box that held a matrix, which it still holds
C11_Witness ==
    /\ last.op = "setattr" /\ last.name = "box"
    /\ last.value = Vec6
    /\ last.exc.type = "ValidationError"
    /\ inner["a"].box.shape = <<3, 3>>
    /\ inner["a"].box.data[4] # 0

(***************************************************************************)
(* C12: to_gro on a container whose positions are None raises              *)
(* MissingPositionsError whatever the writer argument is, invokes no       *)
(* writer and leaves the container as it was.                              *)
(***************************************************************************)
C12_GroNeedsPositions ==
    [][(last'.op = "to_gro" /\ IsNone(inner["a"].positions)) =>
         /\ last'.exc.type = "MissingPositionsError"
         /\ effects' = <<>>
         /\ inner' = inner /\ attrs' = attrs /\ ref' = ref]_vars

\* to_gro was called with the ParmEd writer on a container without positions
C12_Witness ==
    /\ last.op = "to_gro" /\ last.name = "parmed"
    /\ IsNone(inner["a"].positions)
    /\ last.exc.type = "MissingPositionsError"

\* the writers the last call invoked
WriterCalls == SelectSeq(effects, LAMBDA e : e.kind = "call")

\* the warnings the last call issued
Warnings == SelectSeq(effects, LAMBDA e : e.kind = "warning")

(***************************************************************************)
(* C13: to_gro on a container whose positions are all zero issues the      *)
(* "all zero" UserWarning and returns normally, having invoked the writer  *)
(* on the container after the warning (one writer for each of the writers  *)
(* to_gro has); with positions that are set and not all zero it does the   *)
(* same without any warning.                                               *)
(***************************************************************************)
C13_ZeroPositionsWarn ==
    (last.op = "to_gro" /\ ~IsNone(inner["a"].positions)) =>
        LET zero == \A i \in 1..Len(inner["a"].positions.data) :
                        inner["a"].positions.data[i] = 0
        IN  /\ last.exc = NoExc
            /\ zero => /\ Len(Warnings) = 1
                       /\ effects[1] = Warnings[1]
                       /\ Warnings[1].name = "UserWarning"
                       /\ Warnings[1].arg =
                            "Positions seem to all be zero. Result coordinate file may be non-physical."
            /\ ~zero => Warnings = <<>>
            /\ last.name \in {"internal", "parmed"} =>
                 /\ Len(WriterCalls) = 1
                 /\ WriterCalls[1].arg = inner["a"]

\* all-zero positions were written by the internal writer with the warning
C13_Witness ==
    /\ last.op = "to_gro" /\ last.name = "internal" /\ last.exc = NoExc
    /\ ~IsNone(inner["a"].positions)
    /\ Len(effects) = 2
    /\ effects[1].kind = "warning" /\ effects[2].kind = "call"

(***************************************************************************)
(* C14: from_openmm and from_gromacs raise ExperimentalFeatureException    *)
(* whenever INTERCHANGE_EXPERIMENTAL is unset, whatever arguments they are *)
(* given (none included) and without running any import logic; their       *)
(* import logic runs, on the arguments given, only when the flag is set.   *)
(***************************************************************************)
C14_ExperimentalGate ==
    last.op \in {"from_openmm", "from_gromacs"} =>
        IF DictHas(environ, "INTERCHANGE_EXPERIMENTAL")
        THEN /\ last.exc.type # "ExperimentalFeatureException"
             /\ Len(effects) = 1
             /\ effects[1].kind = "call" /\ effects[1].arg = last.value
        ELSE /\ last.exc.type = "ExperimentalFeatureException"
             /\ effects = <<>>

\* from_openmm was called without arguments while the flag was unset
C14_Witness ==
    /\ last.op = "from_openmm" /\ last.value = {}
    /\ environ = EmptyDict
    /\ last.exc.type = "ExperimentalFeatureException"

\* the names in a sequence
Range(seq) == {seq[i] : i \in 1..Len(seq)}

\* the registered parameter handlers that from_smirnoff does not support
UnsupportedOf(registered) ==
    {h \in Range(registered) : h # "ToolkitAM1BCC" /\ h \notin SUPPORTED_SMIRNOFF_HANDLERS}

(***************************************************************************)
(* C15: from_smirnoff on a force field registering a parameter handler     *)
(* outside the supported set, ToolkitAM1BCC aside, raises                  *)
(* SMIRNOFFHandlersNotImplementedError naming every unsupported handler,   *)
(* whatever the topology argument is, before any topology is converted and *)
(* any collection built, and returns nothing; with only supported handlers *)
(* registered it does not raise that error.                                *)
(***************************************************************************)
C15_UnsupportedHandlers ==
    last.op = "from_smirnoff" =>
        IF UnsupportedOf(last.value.registered) # {}
        THEN /\ last.exc.type = "SMIRNOFFHandlersNotImplementedError"
             /\ Range(last.exc.names) = UnsupportedOf(last.value.registered)
             /\ effects = <<>>
             /\ last.ret = NoneVal
        ELSE last.exc.type # "SMIRNOFFHandlersNotImplementedError"

\* two unsupported handlers and an OpenMM topology were passed
C15_Witness ==
    /\ last.op = "from_smirnoff"
    /\ Cardinality(UnsupportedOf(last.value.registered)) = 2
    /\ last.value.topology.kind = "openmm.Topology"
    /\ last.exc.type = "SMIRNOFFHandlersNotImplementedError"

(***************************************************************************)
(* C16 as stated: from_smirnoff given a topology argument that is neither  *)
(* a Topology nor an OFFBioTop raises InvalidTopologyError and returns no  *)
(* container.                                                              *)
(***************************************************************************)
C16_InvalidTopology ==
    (last.op = "from_smirnoff"
       /\ last.value.topology.kind \notin {"OFFBioTop", "Topology"}) =>
        /\ last.exc.type = "InvalidTopologyError"
        /\ last.ret = NoneVal

(***************************************************************************)
(* C16 as amended: from_smirnoff given a force field whose registered      *)
(* handlers are all supported and a topology argument that is neither a    *)
(* Topology nor an OFFBioTop raises InvalidTopologyError, builds no        *)
(* collection and returns no container; whatever the force field, such a   *)
(* topology argument makes the call raise and return no container.         *)
(***************************************************************************)
C16_InvalidTopologyAmended ==
    (last.op = "from_smirnoff"
       /\ last.value.topology.kind \notin {"OFFBioTop", "Topology"}) =>
        /\ last.exc # NoExc
        /\ last.ret = NoneVal
        /\ UnsupportedOf(last.value.registered) = {} =>
             /\ last.exc.type = "InvalidTopologyError"
             /\ effects = <<>>

\* an OpenMM topology was passed with a supported force field
C16_Witness ==
    /\ last.op = "from_smirnoff"
    /\ last.value.topology.kind = "openmm.Topology"
    /\ UnsupportedOf(last.value.registered) = {}
    /\ last.exc.type = "InvalidTopologyError"

\* the atom indices a slot-map key stands for
AtomIndices(key) ==
    IF IsStr(key)
    THEN LET digits == SelectSeq(key.text,
                 LAMBDA c : c \in {"0", "1", "2", "3", "4", "5", "6", "7", "8", "9"})
         IN  [i \in 1..Len(digits) |-> DigitValue(digits[i])]
    ELSE key.atom_indices

\* the calls of the given name the last call made
CallsOf(name) == SelectSeq(effects, LAMBDA e : e.kind = "call" /\ e.name = name)

\* the last call was the OpenMM exporter on a
Exported == last.op = "to_openmm" /\ last.name = "interop"

(***************************************************************************)
(* C17: the OpenMM exporter, on a container with Bonds and Angles whose    *)
(* slot-map entries all resolve, adds to the harmonic bond force exactly   *)
(* one bond per entry of the Bonds slot map, in order, on the entry's atom *)
(* indices and with k and length of the entry's potential, and to the      *)
(* harmonic angle force one angle per entry of the Angles slot map with k  *)
(* and angle of its potential.                                             *)
(***************************************************************************)
C17_OneTermPerEntry ==
    (Exported /\ DictHas(inner["a"].handlers, "Bonds")
       /\ DictHas(inner["a"].handlers, "Angles") /\ ReferentialIntegrity(inner["a"])) =>
        LET bonds == DictGet(inner["a"].handlers, "Bonds")
            angles == DictGet(inner["a"].handlers, "Angles")
        IN  /\ Len(CallsOf("addBond")) = Len(bonds.slot_map)
            /\ \A j \in 1..Len(bonds.slot_map) :
                 LET term == CallsOf("addBond")[j].arg
                     potential == DictGet(bonds.potentials, bonds.slot_map[j].v)
                 IN  /\ <<term.particle1, term.particle2>>
                           = AtomIndices(bonds.slot_map[j].k)
                     /\ term.k.value = potential.parameters[1]
                     /\ term.length.value = potential.parameters[2]
            /\ Len(CallsOf("addAngle")) = Len(angles.slot_map)
            /\ \A j \in 1..Len(angles.slot_map) :
                 LET term == CallsOf("addAngle")[j].arg
                     potential == DictGet(angles.potentials, angles.slot_map[j].v)
                 IN  /\ <<term.particle1, term.particle2, term.particle3>>
                           = AtomIndices(angles.slot_map[j].k)
                     /\ term.k.value = potential.parameters[1]
                     /\ term.angle.value = potential.parameters[2]

\* the slot-map entries of the handler registered under name, none if there is none
SlotsOf(name) ==
    IF DictHas(inner["a"].handlers, name)
    THEN Len(DictGet(inner["a"].handlers, name).slot_map) ELSE 0

(***************************************************************************)
(* C18: the OpenMM exporter adds one periodic torsion per slot-map entry   *)
(* of ProperTorsions and of ImproperTorsions, entries on the same atoms    *)
(* that differ in multiplicity included.                                   *)
(***************************************************************************)
C18_OneTorsionPerEntry ==
    Exported =>
        Len(CallsOf("addTorsion")) = SlotsOf("ProperTorsions") + SlotsOf("ImproperTorsions")

(***************************************************************************)
(* C19: for a bond-charge virtual site of distance d on two orientation    *)
(* atoms of separation s > 0 the exporter returns a two-particle average   *)
(* site on the OpenMM particle indices of those two atoms, with weights    *)
(* w1 = 1 + d / s and w2 = -d / s (d and s in the same unit), so that      *)
(* w1 + w2 = 1.                                                            *)
(***************************************************************************)
C19_BondChargeWeights ==
    (last.op = "_create_openmm_virtual_site" /\ last.name = "BondCharge") =>
        LET site == last.value.virtual_site
            d == InNanometer(site.distance)
            sep == InNanometer(last.value.separations.r12)
            w == last.ret.weights
        IN  /\ last.ret.type = "TwoParticleAverageSite"
            /\ last.ret.particles =
                 <<last.value.openff_openmm_particle_map[site.orientations[1]],
                   last.value.openff_openmm_particle_map[site.orientations[2]]>>
            /\ w[1].num * sep.num * d.den = w[1].den * (sep.num * d.den + d.num * sep.den)
            /\ w[2].num * sep.num * d.den = 0 - w[2].den * d.num * sep.den
            /\ w[1].num * w[2].den + w[2].num * w[1].den = w[1].den * w[2].den

\* a site at a negative distance given in angstrom, the separation in
\* nanometer, and particle indices that differ from the topology indices
C19_Witness ==
    /\ last.op = "_create_openmm_virtual_site" /\ last.name = "BondCharge"
    /\ last.value.virtual_site.distance.value < 0
    /\ last.value.virtual_site.distance.unit = "angstrom"
    /\ last.value.separations.r12.unit = "nanometer"
    /\ last.ret.particles # last.value.virtual_site.orientations
    /\ last.ret.weights[1].den # 1

\* the atom or particle a charge source refers to
ParticleOf(key) ==
    IF "this_atom_index" \in DOMAIN key THEN key.this_atom_index
    ELSE IF "atom_indices" \in DOMAIN key THEN key.atom_indices[1]
    ELSE key.orientation_atom_indices[1] + MaxAtoms

\* the sum of the charges of the first i sources that refer to particle
RECURSIVE SumOfContributions(_, _, _)
SumOfContributions(collection, particle, i) ==
    IF i = 0 THEN 0
    ELSE SumOfContributions(collection, particle, i - 1)
         + (IF ParticleOf(collection.key_map[i].k) = particle
            THEN DictGet(collection.potentials, collection.key_map[i].v).parameters.charge
            ELSE 0)

\* for each particle some source refers to, the sum of its contributions
CurrentCharges(collection) ==
    [particle \in {ParticleOf(collection.key_map[i].k) : i \in 1..Len(collection.key_map)} |->
        SumOfContributions(collection, particle, Len(collection.key_map))]

(***************************************************************************)
(* C20: whatever charge sources were stored and withdrawn before, a read   *)
(* of charges returns for each atom or particle the sum of the             *)
(* contributions that refer to it now; with no source registered the read  *)
(* fails with NotImplementedError.                                         *)
(***************************************************************************)
C20_ChargesNeverStale ==
    last.op = "charges" =>
        IF electrostatics.key_map = EmptyDict
        THEN last.exc.type = "NotImplementedError"
        ELSE last.exc = NoExc /\ last.ret = CurrentCharges(electrostatics)

\* the left operand before the last combination, the right operand and the result
LeftBefore == pre[ref[last.sys]]

Right == inner[ref[last.name]]

Result == inner[ref["c"]]

(***************************************************************************)
(* C21: in a + b, with n the atom count of a before the call, every        *)
(* slot-map entry k -> p of a collection of b other than Electrostatics is *)
(* found in the result's collection of the same name under the key whose   *)
(* atom indices are those of k plus n, with the multiplicity of k, mapped  *)
(* to p, and p resolves in the result's potential store to b's potential   *)
(* for p; every slot-map entry of a is still there under its key.          *)
(***************************************************************************)
C21_SlotMapsMerged ==
    Combined =>
        LET n == LeftBefore.topology.n_atoms
        IN  /\ \A i \in 1..Len(Right.handlers) :
                 Right.handlers[i].k # "Electrostatics" =>
                    /\ DictHas(Result.handlers, Right.handlers[i].k)
                    /\ LET theirs == Right.handlers[i].v
                           ours == DictGet(Result.handlers, Right.handlers[i].k)
                       IN  \A j \in 1..Len(theirs.slot_map) :
                             LET k == theirs.slot_map[j].k
                                 p == theirs.slot_map[j].v
                                 moved == [atom_indices |->
                                             [m \in 1..Len(k.atom_indices) |->
                                                 k.atom_indices[m] + n],
                                           mult |-> k.mult]
                             IN  /\ DictHas(ours.slot_map, moved)
                                 /\ DictGet(ours.slot_map, moved) = p
                                 /\ DictHas(ours.potentials, p)
                                 /\ DictGet(ours.potentials, p) = DictGet(theirs.potentials, p)
            /\ \A i \in 1..Len(LeftBefore.handlers) :
                 /\ DictHas(Result.handlers, LeftBefore.handlers[i].k)
                 /\ LET mine == LeftBefore.handlers[i].v
                        ours == DictGet(Result.handlers, LeftBefore.handlers[i].k)
                    IN  \A j \in 1..Len(mine.slot_map) :
                          /\ DictHas(ours.slot_map, mine.slot_map[j].k)
                          /\ DictGet(ours.slot_map, mine.slot_map[j].k) = mine.slot_map[j].v

\* a combination whose right operand has a bond, so that two atom indices
\* of one key are moved, on a left operand that has slot-map entries too
C21_Witness ==
    /\ Combined
    /\ LeftBefore.topology.n_atoms >= 1
    /\ DictHas(Right.handlers, "Bonds")
    /\ DictGet(Right.handlers, "Bonds").slot_map # EmptyDict
    /\ DictHas(LeftBefore.handlers, "vdW")
    /\ DictGet(LeftBefore.handlers, "vdW").slot_map # EmptyDict

(***************************************************************************)
(* C22: in a + b the Electrostatics charge table of the result holds the   *)
(* entries of a's table as they were and, for every atom key i of b with   *)
(* charge q, an entry for atom i + n_a with charge q, n_a being the atom   *)
(* count of a before the call, and nothing else; this is the table that a  *)
(* read of the result's charges returns after the call.                    *)
(***************************************************************************)
C22_ChargesMerged ==
    (Combined /\ DictHas(Right.handlers, "Electrostatics")
              /\ DictHas(LeftBefore.handlers, "Electrostatics")) =>
        LET n_a == LeftBefore.topology.n_atoms
            mine == DictGet(LeftBefore.handlers, "Electrostatics").charges
            theirs == DictGet(Right.handlers, "Electrostatics").charges
            read == GetItemOf(Result, "str", "Electrostatics")
        IN  /\ read.exc = NoExc
            /\ Entries(read.ret.charges) =
                 Entries(mine) \cup
                 {<<[atom_indices |-> <<theirs[j].k.atom_indices[1] + n_a>>,
                     mult |-> theirs[j].k.mult], theirs[j].v>> : j \in 1..Len(theirs)}

\* a combination of two containers that both have charges
C22_Witness ==
    /\ Combined
    /\ DictHas(Right.handlers, "Electrostatics")
    /\ DictHas(LeftBefore.handlers, "Electrostatics")
    /\ DictGet(LeftBefore.handlers, "Electrostatics").charges # EmptyDict
    /\ Len(DictGet(Right.handlers, "Electrostatics").charges) >= 2

(***************************************************************************)
(* C23: the OpenMM export of the nonbonded interactions either raises      *)
(* UnsupportedCutoffMethodError, and then adds no nonbonded force, or, for *)
(* a container it accepts, sets the method of the nonbonded force by       *)
(* periodicity: PME with the vdW cutoff as cutoff distance when the        *)
(* container has a box, NoCutoff when it has none.                         *)
(***************************************************************************)
C23_NonbondedMethodConfigured ==
    Exported =>
        LET methods == CallsOf("setNonbondedMethod")
            cutoffs == CallsOf("setCutoffDistance")
            vdw_handler == DictGet(Container(last.sys).handlers, "vdW")
        IN  /\ last.exc.type = "UnsupportedCutoffMethodError" =>
                 ~\E i \in 1..Len(effects) : effects[i] = Invoked("addForce", "NonbondedForce")
            /\ last.exc = NoExc =>
                 IF IsNone(Container(last.sys).box)
                 THEN methods = <<Invoked("setNonbondedMethod", "NoCutoff")>>
                 ELSE /\ methods = <<Invoked("setNonbondedMethod", "PME")>>
                      /\ cutoffs = <<Invoked("setCutoffDistance",
                                             Quantity(vdw_handler.cutoff, "angstrom"))>>

\* the last call translated a virtual site for OpenMM
SiteCreated == last.op = "_create_openmm_virtual_site"

(***************************************************************************)
(* C24: the OpenMM exporter translates every virtual site, by its type: a  *)
(* bond-charge site to a two-particle average site; a divalent lone pair   *)
(* whose two bond lengths are equal and whose out-of-plane angle is zero   *)
(* to a three-particle average site of weights (w1, (1-w1)/2, (1-w1)/2),   *)
(* which sum to 1; every other site, a divalent lone pair of unequal bond  *)
(* lengths or out of the plane included, to a local-coordinates site.  The *)
(* particles of the site are the orientation atoms looked up in the map    *)
(* from topology index to particle index.                                  *)
(***************************************************************************)
C24_VirtualSiteDispatch ==
    SiteCreated =>
        LET site == last.value.virtual_site
            map == last.value.openff_openmm_particle_map
            sep == last.value.separations
            symmetric == /\ site.type = "DivalentLonePair"
                         /\ InNanometer(sep.r12) = InNanometer(sep.r13)
                         /\ site.out_of_plane_angle = 0
            w == last.ret.weights
        IN  /\ last.exc = NoExc
            /\ last.ret.particles = [i \in 1..Len(site.orientations) |-> map[site.orientations[i]]]
            /\ site.type = "BondCharge" => last.ret.type = "TwoParticleAverageSite"
            /\ symmetric <=> last.ret.type = "ThreeParticleAverageSite"
            /\ symmetric =>
                 /\ w[2] = w[3]
                 /\ 2 * w[2].num * w[1].den = w[2].den * (w[1].den - w[1].num)
                 /\ RatAdd(RatAdd(w[1], w[2]), w[3]) = Rat(1, 1)
            /\ (site.type # "BondCharge" /\ ~symmetric) =>
                 last.ret.type = "LocalCoordinatesSite"

\* a divalent lone pair of equal bond lengths given in different units, in
\* the plane, whose particles differ from its orientation atoms
C24_Witness ==
    /\ SiteCreated
    /\ last.ret.type = "ThreeParticleAverageSite"
    /\ last.value.separations.r12.unit # last.value.separations.r13.unit
    /\ last.ret.particles # last.value.virtual_site.orientations
    /\ last.ret.weights[1].den # 1

(***************************************************************************)
(* C25: an export that writes a coordinate file requires positions: to_crd *)
(* on a container whose positions are None fails with                      *)
(* MissingPositionsError and invokes no writer, as to_gro does.            *)
(***************************************************************************)
C25_CoordinateFilesNeedPositions ==
    (last.op \in {"to_crd", "to_gro"} /\ IsNone(Container(last.sys).positions)) =>
        /\ last.exc.type = "MissingPositionsError"
        /\ WriterCalls = <<>>

\* the writers each file export supports
SupportedWriters(op) ==
    CASE op = "to_gro" -> {"internal", "parmed"}
      [] op = "to_top" -> {"internal", "parmed"}
      [] op = "to_lammps" -> {"internal"}
      [] op = "to_prmtop" -> {"parmed"}
      [] op = "to_crd" -> {"parmed"}

\* the last call was a file export
FileExported == last.op \in {"to_gro", "to_top", "to_lammps", "to_prmtop", "to_crd"}

(***************************************************************************)
(* C29: a file export (to_gro, to_top, to_lammps, to_prmtop, to_crd) never *)
(* silently does nothing: with a writer name it does not support it raises *)
(* UnsupportedExportError and invokes no writer; with a supported writer,  *)
(* the container having positions, it invokes exactly one writer.          *)
(***************************************************************************)
C29_NoSilentExport ==
    (FileExported /\ ~IsNone(Container(last.sys).positions)
                  /\ Container(last.sys).positions.dtype # "object") =>
        IF last.name \in SupportedWriters(last.op)
        THEN last.exc = NoExc /\ Len(WriterCalls) = 1
        ELSE last.exc.type = "UnsupportedExportError" /\ WriterCalls = <<>>

\* some slot-map key of the handler maps to an identity its store lacks
Dangling(handler) ==
    \E j \in 1..Len(handler.slot_map) : ~DictHas(handler.potentials, handler.slot_map[j].v)

\* the container has a Bonds or an Angles handler with a dangling key
HasDanglingTerm(in) ==
    \E name \in {"Bonds", "Angles"} :
        DictHas(in.handlers, name) /\ Dangling(DictGet(in.handlers, name))

(***************************************************************************)
(* C26: to_openmm on a container in which some Bonds or Angles slot-map    *)
(* key maps to a potential identity that its potential store lacks raises  *)
(* an error and returns no system.                                         *)
(***************************************************************************)
C26_DanglingTermFails ==
    (Exported /\ HasDanglingTerm(Container(last.sys))) =>
        last.exc # NoExc /\ last.ret = NoneVal

\* the export reached the dangling term of an Angles handler, the bonds
\* before it having been added
C26_Witness ==
    /\ Exported
    /\ HasDanglingTerm(Container(last.sys))
    /\ last.exc = Exc("KeyError", "a2")
    /\ CallsOf("addBond") # <<>>

(***************************************************************************)
(* C27: a combination a + b that raises leaves both operands as they were  *)
(* before the call: the same topology, slot maps, potential stores,        *)
(* charges and positions.                                                  *)
(***************************************************************************)
C27_CombinationAllOrNothing ==
    (last.op = "add" /\ last.exc # NoExc) =>
        /\ Container(last.sys) = LeftBefore
        /\ Container(last.name) = pre[ref[last.name]]

(***************************************************************************)
(* C28: after c = a + b, every topology key k of every collection of a     *)
(* resolves in c to the parameter values it resolved to in a before the    *)
(* call, also when a and b store different potentials under one identity.  *)
(***************************************************************************)
C28_LeftParametersKept ==
    Combined =>
        \A i \in 1..Len(LeftBefore.handlers) :
            LET mine == LeftBefore.handlers[i].v
                ours == DictGet(Result.handlers, LeftBefore.handlers[i].k)
            IN  \A j \in 1..Len(mine.slot_map) :
                  LET k == mine.slot_map[j].k
                  IN  DictHas(mine.potentials, mine.slot_map[j].v) =>
                        /\ DictHas(ours.slot_map, k)
                        /\ DictHas(ours.potentials, DictGet(ours.slot_map, k))
                        /\ DictGet(ours.potentials, DictGet(ours.slot_map, k)).parameters
                             = DictGet(mine.potentials, mine.slot_map[j].v).parameters

\* the container has Bonds, Angles, vdW and Electrostatics handlers whose
\* methods the exporter supports
Exportable(in) ==
    /\ \A name \in {"Bonds", "Angles", "vdW", "Electrostatics"} : DictHas(in.handlers, name)
    /\ DictGet(in.handlers, "vdW").method = "Cutoff"
    /\ DictGet(in.handlers, "Electrostatics").method = "PME"

(***************************************************************************)
(* C30: System.to_openmm(combine_nonbonded_forces=v), for either boolean   *)
(* v, on a container with Bonds, Angles, vdW and Electrostatics handlers   *)
(* of supported methods does not fail on its call to the exporter: the     *)
(* exporter runs on the container, with the box as default periodic box    *)
(* vectors when there is one, and the system it builds is returned.        *)
(***************************************************************************)
C30_ToOpenMMDelegates ==
    (last.op = "to_openmm" /\ last.name = "System" /\ Exportable(Container(last.sys))) =>
        /\ last.exc # Exc("TypeError", "to_openmm() got an unexpected keyword argument")
        /\ CallsOf("openmm.System") # <<>>
        /\ ~IsNone(Container(last.sys).box) =>
             CallsOf("setDefaultPeriodicBoxVectors")
               = <<Invoked("setDefaultPeriodicBoxVectors", Container(last.sys).box)>>
        /\ last.exc = NoExc => last.ret = Invoked("openmm.System", effects)

====
